---- MODULE Spec2Model ----
(***************************************************************************)
(* Router operators of mrc::node (router.hpp): the component routers       *)
(* (Router / LambdaRouter / TaggedRouter, DynamicRouterComponent,          *)
(* LambdaStaticRouterComponent) driven by on_next, and the runnable router *)
(* (LambdaStaticRouterRunnable) driven by its own run() loop.              *)
(* Each further component has its own variables and its own specification; *)
(* a specification leaves the variables of the other components alone.     *)
(***************************************************************************)
EXTENDS Integers, Sequences, FiniteSets, TLC

VARIABLES
    variant,         \* which router class was constructed
    m_edges,         \* MultiSourceProperties: key -> connected writable edge (a sink) or NoEdge
    m_downstreams,   \* keys that own a Downstream object (dynamic and static routers)
    closed,          \* per sink, whether the downstream channel is closed
    written,         \* per sink, every value a successful await_write handed over (history)
    up,              \* the runnable's upstream channel: [q, closed]
    inputs,          \* every item handed to the router's input: pushed into on_next, or
                     \* accepted by the runnable's upstream channel (history)
    pc,              \* position of run(): "none" for component routers
    data,            \* run(): InputT data
    read_status,     \* run(): channel::Status read_status
    write_status,    \* run(): channel::Status write_status
    stop_requested,  \* m_stop_source.stop_requested()
    state,           \* the last Runnable::State handed to on_state_update
    thrown,          \* what run() raised on exit: "none", "read", "write"
    lastRead,        \* status of the latest await_read of run(), "none" before it (history)
    last,            \* outcome of the latest on_next / process_one call (history)
    nTaken,          \* items the router took from its input (history)
    nProcessed,      \* items handed to on_next / process_one (history)
    wiringChanged,   \* an edge was bound or released after the first item was taken (history)
    kill,            \* run() steps counted from the first Kill: [steps, deq, fwd] (history)
    api,             \* the latest get_source / drop_source call: [op, key, ok] (history)
    cps,             \* control-plane state: the normalized snapshots built from raw
                     \* messages and the latest accessor or operator== call on their views
    mgr,             \* pipeline::Manager: m_current_segments, the segments it built with
                     \* their runnables' state, the termination requested from each
    ps,              \* publisher/subscriber link-up: the stored tagged_instances maps, the
                     \* registered handlers, the update in progress and what handlers saw
    pl,              \* Executor running a registered pipeline: the runnables of its nodes, the
                     \* channels between them, what the sink observed and the test's counters
    rpc,             \* streaming request/response test: the client's loop, the messages on the
                     \* stream in each direction, the handlers' input channels, what the client read
    chn,             \* one Channel<T>: its queue and closed flag, the writers and readers calling
                     \* or suspended on it, the values accepted and returned so far
    sb,              \* subscribers made by make_subscriber: how far the call got, who shares the
                     \* SubscriberEdge, how often its drop-service function ran
    sch,             \* srf_scheduler::new_worker: the lifetime, the queue, the worker loop, the
                     \* constructor, the unsubscribe callback and what was executed
    rs               \* ResourceState::dependees / dependers: the two function-static
                     \* vectors, the calls in progress per thread, the references handed out

routerVars == <<variant, m_edges, m_downstreams>>
chanVars   == <<closed, written>>
upVars     == <<up, inputs>>
runVars    == <<pc, data, read_status, write_status, thrown>>
stopVars   == <<stop_requested, state>>
histVars   == <<last, lastRead, nTaken, nProcessed, wiringChanged, kill>>
nodeVars   == <<routerVars, chanVars, upVars, runVars, stopVars, histVars>>
extVars    == <<api, cps, rs, mgr, ps, pl, rpc, chn, sb, sch>>
vars       == <<nodeVars, extVars>>

----------------------------------------------------------------------------
(* Bounds *)

MaxItems == 3        \* items pushed into a component router in one behaviour
MaxUpstream == 2     \* items written to the runnable router's upstream channel
ChanCapacity == 2    \* capacity of the runnable's upstream channel
MaxClosed == 1       \* downstream channels that are closed under the router
MaxKeyItems == 2     \* items routed between the key-set operations of SpecKeys
MaxPending  == 2     \* items a segment holds when it is asked to stop
MaxEmit     == 2     \* items emitted by the source of the four-segment pipeline
MaxRequests == 3     \* requests the streaming client writes
MaxWrites   == 3     \* write calls made on the channel
MaxTime     == 1     \* the scheduler's clock runs from 0 to MaxTime
MaxActions  == 3     \* schedule() calls made on a worker

----------------------------------------------------------------------------
(* Domains *)

Keys      == {"a", "b", "z"}          \* values of KeyT
RouteKeys == {"a", "b"}               \* route_keys given to a static / dynamic constructor
NoEdge    == "none"
Dn(k)     == "d_" \o k                \* the downstream node made for key k
Sinks     == {Dn(k) : k \in RouteKeys} \cup {"dx"}
\* the n-th input handed to a router: <<first component, payload>>; the payload is the
\* input's sequence number, negated for a payload the user's key function rejects (a
\* TaggedRouter has no user function)
Inputs(n) ==
    {<<k, n>> : k \in Keys} \cup (IF variant = "TaggedRouter" THEN {} ELSE {<<"a", 0 - n>>})
Status    == {"success", "closed", "error", "timeout"}   \* channel::Status

ConvertVariants   == {"TaggedRouter", "LambdaRouterConvert"}
RouterBaseVariants == ConvertVariants \cup {"LambdaRouter"}
StaticVariants    == {"LambdaStaticRouterComponent", "LambdaStaticRouterRunnable"}
ComponentVariants == RouterBaseVariants
                        \cup {"DynamicRouterComponent", "LambdaStaticRouterComponent"}
Variants          == ComponentVariants \cup {"LambdaStaticRouterRunnable"}

\* the downstream nodes an edge from key k is made to: a static router's Downstream of k
\* feeds the node reading its own channel; the other routers accept any writable edge
Candidates(v, k) ==
    IF v \in StaticVariants THEN {Dn(k)}
    ELSE IF k = "a" THEN {Dn(k), "dx"} ELSE IF k = "b" THEN {Dn(k)} ELSE {"dx"}

NoItem    == <<"none", 0>>
NoLast    == [item |-> NoItem, edge |-> NoEdge, ret |-> "none", escaped |-> FALSE,
              attempts |-> <<>>]

----------------------------------------------------------------------------
(* Channel primitives *)

\* status of await_write on the edge to sink s
await_write(s) == IF closed[s] THEN "closed" ELSE "success"

----------------------------------------------------------------------------
(* User functions and edge lookup *)

\* the key function handed to the Lambda* constructors: it raises on a negative payload
m_key_fn(d) == IF d[2] < 0 THEN [ok |-> FALSE, val |-> NoEdge] ELSE [ok |-> TRUE, val |-> d[1]]

\* the convert function handed to LambdaRouter(key_fn, convert_fn): it raises on an even
\* payload
m_convert_fn(d) == IF d[2] % 2 = 0 THEN [ok |-> FALSE, val |-> <<"out", 0>>]
                   ELSE [ok |-> TRUE, val |-> <<"out", d[2]>>]

\* mutant: the key does not come from the item
TaggedRouter_determine_key_for_value_Fixed(d) == [ok |-> TRUE, val |-> "a"]

\* return data.first;
TaggedRouter_determine_key_for_value(d) == [ok |-> TRUE, val |-> d[1]]

\* the key is dropped, the value is moved out
TaggedRouter_convert_value(d) == [ok |-> TRUE, val |-> d[2]]

\* the virtual determine_key_for_value of the constructed class
determine_key_for_value(d) ==
    IF variant = "TaggedRouter" THEN TaggedRouter_determine_key_for_value(d) ELSE m_key_fn(d)

\* the virtual convert_value of the constructed class
convert_value(d) ==
    IF variant = "TaggedRouter" THEN TaggedRouter_convert_value(d) ELSE m_convert_fn(d)

\* MultiSourceProperties::get_writable_edge: raises when no edge is connected for the key
get_writable_edge(key) ==
    IF m_edges[key] = NoEdge THEN [ok |-> FALSE, val |-> NoEdge]
    ELSE [ok |-> TRUE, val |-> m_edges[key]]

----------------------------------------------------------------------------
(* on_next / process_one *)

\* the outcome of a call: whether an exception left it, the status it returned, and the
\* await_write calls it made, each <<sink, value, status>>
Thrown == [thrown |-> TRUE, ret |-> "none", attempts |-> <<>>]
Returned(s, v) ==
    [thrown |-> FALSE, ret |-> await_write(s), attempts |-> << <<s, v, await_write(s)>> >>]

\* the try block of the routers without conversion
RouteDirect(d) ==
    LET key == determine_key_for_value(d) IN
    IF ~key.ok THEN Thrown
    ELSE LET e == get_writable_edge(key.val) IN
         IF ~e.ok THEN Thrown ELSE Returned(e.val, d)

\* the try block of Router<KeyT, InputT, OutputT> with a conversion
RouteConvert(d) ==
    LET key == determine_key_for_value(d) IN
    IF ~key.ok THEN Thrown
    ELSE LET output == convert_value(d) IN
         IF ~output.ok THEN Thrown
         ELSE LET e == get_writable_edge(key.val) IN
              IF ~e.ok THEN Thrown ELSE Returned(e.val, output.val)

\* catch (const std::exception&) { return channel::Status::error; }
Catch(r) == IF r.thrown THEN [r EXCEPT !.thrown = FALSE, !.ret = "error"] ELSE r

\* mutants: the catch clause is missing
Router_on_next_convert_NoCatch(d) == RouteConvert(d)
process_one_NoCatch(d) == RouteDirect(d)

\* mutant: the edge is looked up for a fixed key, not for the key of the item
process_one_WrongEdge(d) ==
    LET key == determine_key_for_value(d) IN
    IF ~key.ok THEN Catch(Thrown)
    ELSE LET e == get_writable_edge("a") IN
         IF ~e.ok THEN Catch(Thrown) ELSE Returned(e.val, d)

Router_on_next_convert(d) == Catch(RouteConvert(d))
Router_on_next(d) == Catch(RouteDirect(d))
DynamicRouterComponent_on_next(d) == Catch(RouteDirect(d))
process_one(d) == Catch(RouteDirect(d))
StaticRouterComponentBase_on_next(d) == process_one(d)

on_next(d) ==
    CASE variant \in ConvertVariants -> Router_on_next_convert(d)
      [] variant = "LambdaRouter" -> Router_on_next(d)
      [] variant = "DynamicRouterComponent" -> DynamicRouterComponent_on_next(d)
      [] OTHER -> StaticRouterComponentBase_on_next(d)

----------------------------------------------------------------------------

(* Effects shared by the actions *)

Accepted(o, s) ==
    IF o.attempts # <<>> /\ o.attempts[1][1] = s /\ o.attempts[1][3] = "success"
    THEN <<o.attempts[1][2]>> ELSE <<>>

\* the values the downstream edges accepted during the call
Deliver(o) == written' = [s \in Sinks |-> written[s] \o Accepted(o, s)]

Record(d, o) ==
    /\ last' = [item |-> d, edge |-> m_edges[d[1]],
                ret |-> o.ret, escaped |-> o.thrown, attempts |-> o.attempts]
    /\ nProcessed' = nProcessed + 1

\* releasing the edges of the keys in ks closes every channel no remaining edge writes to
Release(ks) ==
    LET kept == {m_edges[k] : k \in Keys \ ks}
        gone == {m_edges[k] : k \in ks} \ (kept \cup {NoEdge})
    IN /\ m_edges' = [k \in Keys |-> IF k \in ks THEN NoEdge ELSE m_edges[k]]
       /\ closed' = [s \in Sinks |-> closed[s] \/ s \in gone]

release_edge_connections == Release(Keys)

----------------------------------------------------------------------------
(* Component routers *)

\* mutant: a call that returns error drops the router's edges
OnNext_ErrorReleases(d) ==
    /\ variant \in ComponentVariants
    /\ nTaken < MaxItems
    /\ LET o == on_next(d) IN
        /\ Deliver(o)
        /\ Record(d, o)
        /\ IF o.ret = "error" THEN release_edge_connections
           ELSE UNCHANGED <<m_edges, closed>>
    /\ nTaken' = nTaken + 1
    /\ inputs' = Append(inputs, d)
    /\ UNCHANGED <<variant, m_downstreams, up, runVars, stopVars, lastRead, wiringChanged,
                   kill>>

\* upstream pushes one item into a component router
OnNext(d) ==
    /\ variant \in ComponentVariants
    /\ nTaken < MaxItems
    /\ LET o == on_next(d) IN Deliver(o) /\ Record(d, o)
    /\ nTaken' = nTaken + 1
    /\ inputs' = Append(inputs, d)
    /\ UNCHANGED <<routerVars, closed, up, runVars, stopVars, lastRead, wiringChanged, kill>>

\* upstream completes: RouterBase / DynamicRouterComponent / StaticRouterComponentBase
OnComplete ==
    /\ variant \in ComponentVariants
    /\ \E k \in Keys : m_edges[k] # NoEdge
    /\ release_edge_connections
    /\ wiringChanged' = (wiringChanged \/ nTaken > 0)
    /\ UNCHANGED <<variant, m_downstreams, written, upVars, runVars, stopVars,
                   last, lastRead, nTaken, nProcessed, kill>>

----------------------------------------------------------------------------
(* Wiring *)

\* mutant: the lookup is m_downstreams[key], which inserts a missing key
m_downstreams_subscript(k) == [ok |-> TRUE, map |-> m_downstreams \cup {k}]

\* m_downstreams.at(key): raises std::out_of_range for a missing key, inserts nothing
m_downstreams_at(k) == [ok |-> k \in m_downstreams, map |-> m_downstreams]

\* get_source(key): RouterBase builds an acceptor for any key; the dynamic and static
\* routers look the key up in m_downstreams (std::map::at raises for any other key)
get_source(k) == variant \in RouterBaseVariants \/ m_downstreams_at(k).ok

\* has_source(key): RouterBase asks MultiSourceProperties for the key's edge, the dynamic
\* and static routers ask m_downstreams.contains(key)
has_source(k) ==
    IF variant \in RouterBaseVariants THEN m_edges[k] # NoEdge ELSE k \in m_downstreams

\* an edge is made from the acceptor of key k to sink s; a prior edge of k is replaced
\* mutant: the new handle takes over every key that wrote to the replaced one
set_writable_edge_handle_Moves(k, s) ==
    LET old == m_edges[k]
    IN /\ m_edges' = [j \in Keys |-> IF j = k \/ (old # NoEdge /\ m_edges[j] = old)
                                     THEN s ELSE m_edges[j]]
       /\ closed' = [c \in Sinks |-> closed[c] \/ (c = old /\ c # s)]

set_writable_edge_handle(k, s) ==
    LET old == m_edges[k]
        still == \E j \in Keys \ {k} : m_edges[j] = old
    IN /\ m_edges' = [m_edges EXCEPT ![k] = s]
       /\ closed' = [c \in Sinks |-> closed[c] \/ (c = old /\ ~still)]

\* make_edge(router.get_source(k), sink); a runnable is wired before service_start
Bind(k, s) ==
    /\ get_source(k)
    /\ s \in Candidates(variant, k)
    /\ m_edges[k] # s
    /\ ~closed[s]
    /\ state = "Init"
    /\ set_writable_edge_handle(k, s)
    /\ wiringChanged' = (wiringChanged \/ nTaken > 0)
    /\ UNCHANGED <<variant, m_downstreams, written, upVars, runVars, stopVars,
                   last, lastRead, nTaken, nProcessed, kill>>

\* a caller asks for the acceptor of key k and does nothing with it
GetSource(k) ==
    /\ api' = [op |-> "get_source", key |-> k, ok |-> get_source(k)]
    /\ m_downstreams' = IF variant \in RouterBaseVariants THEN m_downstreams
                        ELSE m_downstreams_at(k).map
    /\ UNCHANGED <<variant, m_edges, chanVars, upVars, runVars, stopVars, histVars>>

\* RouterBase::drop_source: release_edge_connection(key)
RouterBase_drop_source(k) == Release({k}) /\ UNCHANGED m_downstreams

\* DynamicRouterComponent::drop_source: m_downstreams.erase(key); the release of the
\* key's edge is commented out
DynamicRouterComponent_drop_source(k) ==
    /\ m_downstreams' = m_downstreams \ {k}
    /\ UNCHANGED <<m_edges, closed>>

\* drop_source(k); the static routers have no such operation
DropSource(k) ==
    /\ variant \in RouterBaseVariants \cup {"DynamicRouterComponent"}
    /\ has_source(k)
    /\ IF variant \in RouterBaseVariants THEN RouterBase_drop_source(k)
       ELSE DynamicRouterComponent_drop_source(k)
    /\ api' = [op |-> "drop_source", key |-> k, ok |-> TRUE]
    /\ wiringChanged' = (wiringChanged \/ nTaken > 0)
    /\ UNCHANGED <<variant, written, upVars, runVars, stopVars,
                   last, lastRead, nTaken, nProcessed, kill>>

----------------------------------------------------------------------------
(* Downstream nodes *)

\* the node behind sink s, which the router writes to, goes away and its channel is closed
SinkClose(s) ==
    /\ ~closed[s]
    /\ \E k \in Keys : m_edges[k] = s
    /\ Cardinality({t \in Sinks : closed[t]}) < MaxClosed
    /\ closed' = [closed EXCEPT ![s] = TRUE]
    /\ UNCHANGED <<routerVars, written, upVars, runVars, stopVars, histVars>>

----------------------------------------------------------------------------
(* The runnable router: upstream channel *)

IsRunnable == variant = "LambdaStaticRouterRunnable"

\* an upstream node writes item d into the router's channel (suspended while it is full)
UpstreamWrite(d) ==
    /\ IsRunnable
    /\ Len(inputs) < MaxUpstream
    /\ ~up.closed
    /\ Len(up.q) < ChanCapacity
    /\ up' = [up EXCEPT !.q = Append(@, d)]
    /\ inputs' = Append(inputs, d)
    /\ UNCHANGED <<routerVars, chanVars, runVars, stopVars, histVars>>

\* the upstream completes and the channel is closed
UpstreamClose ==
    /\ IsRunnable
    /\ ~up.closed
    /\ up' = [up EXCEPT !.closed = TRUE]
    /\ UNCHANGED <<routerVars, chanVars, inputs, runVars, stopVars, histVars>>

\* what await_read returns when it is not suspended: a queued value is returned even
\* after close, an empty closed channel gives closed, an empty open channel suspends
ReadResults == IF up.q # <<>> THEN {"success"} ELSE IF up.closed THEN {"closed"} ELSE {}

\* the other statuses of channel::Status, which the readable edge may report at any time
ReadFaults == {"error", "timeout"}

----------------------------------------------------------------------------
(* The runnable router: on_state_update *)

States == {"Init", "Queued", "Running", "Stop", "Kill", "Completed"}

\* the transitions of Runnable::State the runner makes: Init -> Queued on service_start,
\* Queued -> Running on engine pickup, Running -> Stop, Running -> Kill, Stop -> Kill,
\* and any state -> Completed once run() has returned
Transition(from, to) ==
    \/ from = "Init" /\ to = "Queued"
    \/ from = "Queued" /\ to = "Running"
    \/ from = "Running" /\ to \in {"Stop", "Kill"}
    \/ from = "Stop" /\ to = "Kill"
    \/ from # "Completed" /\ to = "Completed" /\ pc = "done"

\* mutant: the Stop case requests the stop as well
on_state_update_StopRequests(s) ==
    stop_requested' = IF s \in {"Stop", "Kill"} THEN TRUE ELSE stop_requested

\* the switch of on_state_update
on_state_update(s) ==
    stop_requested' = IF s = "Kill" THEN TRUE ELSE stop_requested

\* the runner moves the runnable to a later state and notifies it
OnStateUpdate(s) ==
    /\ IsRunnable
    /\ Transition(state, s)
    /\ state' = s
    /\ on_state_update(s)
    /\ UNCHANGED <<routerVars, chanVars, upVars, runVars, histVars>>

----------------------------------------------------------------------------
(* The runnable router: run() *)

\* run() steps counted once the stop token is set
Count(deq, fwd) ==
    kill' = IF stop_requested
            THEN [steps |-> kill.steps + 1, deq |-> kill.deq + deq, fwd |-> kill.fwd + fwd]
            ELSE kill

\* the declarations: read_status is left uninitialised, write_status is success
RunStart ==
    /\ pc = "idle"
    /\ state \in {"Running", "Stop", "Kill"}
    /\ pc' = "loop"
    /\ read_status' \in Status
    /\ write_status' = "success"
    /\ Count(0, 0)
    /\ UNCHANGED <<routerVars, chanVars, upVars, data, thrown, stopVars,
                   last, lastRead, nTaken, nProcessed, wiringChanged>>

\* mutant: the loop condition does not look at the stop token
RunCheckStop_IgnoresToken ==
    /\ pc = "loop"
    /\ pc' = "read"
    /\ Count(0, 0)
    /\ UNCHANGED <<routerVars, chanVars, upVars, data, read_status, write_status, thrown,
                   stopVars, last, lastRead, nTaken, nProcessed, wiringChanged>>

\* while (!m_stop_source.stop_requested() && ...
RunCheckStop ==
    /\ pc = "loop"
    /\ pc' = IF stop_requested THEN "exit" ELSE "read"
    /\ Count(0, 0)
    /\ UNCHANGED <<routerVars, chanVars, upVars, data, read_status, write_status, thrown,
                   stopVars, last, lastRead, nTaken, nProcessed, wiringChanged>>

\* ... (read_status = await_read(data)) == success && write_status == success): the read
\* returned r
AwaitRead(r) ==
    /\ pc = "read"
    /\ read_status' = r
    /\ lastRead' = r
    /\ IF r = "success"
       THEN /\ data' = Head(up.q)
            /\ up' = [up EXCEPT !.q = Tail(@)]
            /\ nTaken' = nTaken + 1
            /\ Count(1, 0)
       ELSE /\ UNCHANGED <<data, up, nTaken>>
            /\ Count(0, 0)
    /\ pc' = IF r = "success" /\ write_status = "success" THEN "body" ELSE "exit"
    /\ UNCHANGED <<routerVars, chanVars, inputs, write_status, thrown, stopVars,
                   last, nProcessed, wiringChanged>>

\* the read returns what the channel holds
RunAwaitRead == \E r \in ReadResults : AwaitRead(r)

\* the read reports error or timeout
RunReadFault == \E r \in ReadFaults : AwaitRead(r)

\* write_status = this->process_one(std::move(data));
RunProcessOne ==
    /\ pc = "body"
    /\ LET o == process_one(data) IN
        /\ Deliver(o)
        /\ Record(data, o)
        /\ write_status' = o.ret
        /\ pc' = IF o.thrown THEN "done" ELSE "loop"
        /\ thrown' = IF o.thrown THEN "escaped" ELSE thrown
        /\ Count(0, IF o.attempts # <<>> THEN 1 ELSE 0)
    /\ UNCHANGED <<routerVars, closed, upVars, data, read_status, stopVars,
                   lastRead, nTaken, wiringChanged>>

\* mutant: run() returns without dropping its connections
RunExit_KeepsEdges ==
    /\ pc = "exit"
    /\ thrown' = IF read_status = "error" THEN "read"
                 ELSE IF write_status = "error" THEN "write" ELSE "none"
    /\ pc' = "done"
    /\ Count(0, 0)
    /\ UNCHANGED <<routerVars, chanVars, upVars, data, read_status, write_status,
                   stopVars, last, lastRead, nTaken, nProcessed, wiringChanged>>

\* release_edge_connections(), then the two throws
RunExit ==
    /\ pc = "exit"
    /\ release_edge_connections
    /\ thrown' = IF read_status = "error" THEN "read"
                 ELSE IF write_status = "error" THEN "write" ELSE "none"
    /\ pc' = "done"
    /\ Count(0, 0)
    /\ UNCHANGED <<variant, m_downstreams, written, upVars, data, read_status, write_status,
                   stopVars, last, lastRead, nTaken, nProcessed, wiringChanged>>

Run == RunStart \/ RunCheckStop \/ RunAwaitRead \/ RunProcessOne \/ RunExit

----------------------------------------------------------------------------

(***************************************************************************)
(* Control-plane state (root_state.cpp): a raw ControlPlaneState message,  *)
(* the normalized snapshot ControlPlaneNormalizedState::create builds from *)
(* it, the views of the snapshot and their cross-reference accessors.      *)
(***************************************************************************)

\* the id-indexed maps of a snapshot
Kinds == {"executors", "workers", "pipeline_definitions", "pipeline_instances",
          "manifold_instances", "segment_instances"}

\* the view class initialize() wraps the entities of a map in
ViewType(kind) ==
    CASE kind = "executors" -> "Executor"
      [] kind = "workers" -> "Worker"
      [] kind = "pipeline_definitions" -> "PipelineDefinition"
      [] kind = "pipeline_instances" -> "PipelineInstance"
      [] kind = "manifold_instances" -> "ManifoldInstance"
      [] OTHER -> "SegmentInstance"

\* the views a PipelineDefinition builds for its manifolds and segments
NestedViews == {"ManifoldDefinition", "SegmentDefinition"}

\* the cross-reference accessors: <<view class, accessor, map the ids index>>
Accessors ==
    {<<"Executor", "workers", "workers">>,
     <<"Executor", "assigned_pipelines", "pipeline_instances">>,
     <<"Executor", "mapped_pipeline_definitions", "pipeline_definitions">>,
     <<"Worker", "executor", "executors">>,
     <<"Worker", "assigned_segments", "segment_instances">>,
     <<"ManifoldDefinition", "parent", "pipeline_definitions">>,
     <<"ManifoldDefinition", "instances", "manifold_instances">>,
     <<"SegmentDefinition", "parent", "pipeline_definitions">>,
     <<"SegmentDefinition", "instances", "segment_instances">>,
     <<"PipelineDefinition", "instances", "pipeline_instances">>,
     <<"PipelineInstance", "definition", "pipeline_definitions">>,
     <<"PipelineInstance", "manifolds", "manifold_instances">>,
     <<"PipelineInstance", "segments", "segment_instances">>,
     <<"ManifoldInstance", "pipeline_definition", "pipeline_definitions">>,
     <<"ManifoldInstance", "pipeline_instance", "pipeline_instances">>,
     <<"SegmentInstance", "pipeline_definition", "pipeline_definitions">>,
     <<"SegmentInstance", "worker", "workers">>,
     <<"SegmentInstance", "pipeline_instance", "pipeline_instances">>}

ViewTypes == {a[1] : a \in Accessors}

\* ids: 1 is the id of the one entity of each kind, 2 is the id of no entity
Ids == {1, 2}

\* a raw message: per map the ids list and the keys of entities, per accessor the ids
\* its field carries
BaseMessage ==
    [ids  |-> [k \in Kinds |-> {1}],
     ents |-> [k \in Kinds |-> {1}],
     refs |-> [a \in Accessors |-> {1}]]

\* the raw messages received: the consistent one, and it with one thing wrong: a field
\* carrying the id of no entity, an entity missing from its ids list, or an id listed
\* without its entity
RawMessages ==
    {BaseMessage}
        \cup {[BaseMessage EXCEPT !.refs[a] = {2}] : a \in Accessors}
        \cup {[BaseMessage EXCEPT !.ids[k] = {}] : k \in Kinds}
        \cup {[BaseMessage EXCEPT !.ents[k] = {}] : k \in Kinds}

Snapshots == {"s1", "s2"}
NullRoot  == "null"

NoSnapshot ==
    [status |-> "none", msg |-> BaseMessage, maps |-> [k \in Kinds |-> {}], views |-> {}]

NoStateCall == [op |-> "none", a |-> <<"none", "none">>, b |-> <<"none", "none">>,
                result |-> "none"]

\* ControlPlaneTopLevelMessage(state, message): the view keeps the snapshot
TopLevelView(s, kind, id) == [type |-> ViewType(kind), id |-> id, root |-> s]

\* ManifoldDefinition(state, message), SegmentDefinition(state, message): the
\* initialisers are ControlPlaneStateBase(message), m_message(message); m_root_state is
\* left empty
NestedView(s, type, id) == [type |-> type, id |-> id, root |-> NullRoot]

\* PipelineDefinition(state, message): one nested view per manifold and per segment
PipelineDefinitionViews(s, id) ==
    {TopLevelView(s, "pipeline_definitions", id)}
        \cup {NestedView(s, t, id) : t \in NestedViews}

\* initialize(): for each id of each ids list, entities().at(id) is wrapped in a view and
\* put in the map; protobuf's Map::at is fatal for a missing key. The ids the entities
\* carry are not looked at.
initialize(s, m) ==
    IF \E k \in Kinds : ~(m.ids[k] \subseteq m.ents[k])
    THEN [status |-> "aborted", msg |-> m, maps |-> [k \in Kinds |-> {}], views |-> {}]
    ELSE [status |-> "created", msg |-> m, maps |-> m.ids,
          views |-> UNION {IF k = "pipeline_definitions"
                              THEN UNION {PipelineDefinitionViews(s, i) : i \in m.ids[k]}
                              ELSE {TopLevelView(s, k, i) : i \in m.ids[k]} : k \in Kinds}]

stateIdle == <<nodeVars, api, rs, mgr, ps, pl, rpc, chn, sb, sch>>

\* the raw message that follows: any at first, then the same again or the consistent one
NextMessages ==
    IF cps.snaps["s1"].status = "none" THEN RawMessages
    ELSE {cps.snaps["s1"].msg, BaseMessage}

\* ControlPlaneNormalizedState::create(message)
Create(s, m) ==
    /\ cps.snaps[s].status = "none"
    /\ s = "s2" => cps.snaps["s1"].status = "created"
    /\ cps' = [cps EXCEPT !.snaps[s] = initialize(s, m)]
    /\ UNCHANGED stateIdle

\* MAP_AT_WITH_CHECK(map_obj, id) is map_obj.at(id): std::out_of_range for a missing id
MAP_AT_WITH_CHECK(map, ids) == IF ids \subseteq map THEN "found" ELSE "throws"

\* what an accessor call on view v can do: with m_root_state empty the call dereferences
\* a null shared_ptr, which is undefined
AccessOutcomes(v, acc) ==
    IF v.root = NullRoot THEN {"crash", "found", "throws"}
    ELSE {MAP_AT_WITH_CHECK(cps.snaps[v.root].maps[acc[3]], cps.snaps[v.root].msg.refs[acc])}

\* a cross-reference accessor is called on a view of a snapshot
Access(s, v, acc) ==
    /\ cps.snaps[s].status = "created"
    /\ v \in cps.snaps[s].views
    /\ v.type = acc[1]
    /\ \E r \in AccessOutcomes(v, acc) :
        cps' = [cps EXCEPT !.call = [op |-> "access", a |-> <<s, v.type>>,
                                     b |-> <<acc[2], acc[3]>>, result |-> r]]
    /\ UNCHANGED stateIdle

\* the message a view wraps (m_internal_message): its type and the fields of the entity
MessageOf(s, type) ==
    [type |-> type,
     fields |-> {<<a[2], cps.snaps[s].msg.refs[a]>> : a \in {x \in Accessors : x[1] = type}}]

\* google::protobuf::util::MessageDifferencer::Equals: same descriptor and every field
\* equal
MessageDifferencer_Equals(m1, m2) ==
    /\ m1.type = m2.type
    /\ \A f \in m1.fields : f \in m2.fields
    /\ \A f \in m2.fields : f \in m1.fields

\* mutant: the wrappers are compared by identity
ControlPlaneStateBase_eq_Identity(a, b) == a = b

\* ControlPlaneStateBase::operator==, on wrappers <<snapshot, view class>>
ControlPlaneStateBase_eq(a, b) ==
    MessageDifferencer_Equals(MessageOf(a[1], a[2]), MessageOf(b[1], b[2]))

\* a == b is evaluated on two views
Compare(a, b) ==
    /\ \A w \in {a, b} :
        /\ cps.snaps[w[1]].status = "created"
        /\ \E v \in cps.snaps[w[1]].views : v.type = w[2]
    /\ cps' = [cps EXCEPT !.call = [op |-> "compare", a |-> a, b |-> b,
                                   result |-> IF ControlPlaneStateBase_eq(a, b)
                                              THEN "equal" ELSE "differ"]]
    /\ UNCHANGED stateIdle

CpsInit == cps = [snaps |-> [s \in Snapshots |-> NoSnapshot], call |-> NoStateCall]

NextState ==
    \/ \E s \in Snapshots, m \in NextMessages : Create(s, m)
    \/ \E s \in Snapshots : \E v \in cps.snaps[s].views, acc \in Accessors :
            Access(s, v, acc)
    \/ \E a, b \in Snapshots \X ViewTypes :
            (a[2] = b[2] \/ {a[2], b[2]} = {"Executor", "Worker"}) /\ Compare(a, b)

----------------------------------------------------------------------------
(* ResourceState::dependees() and dependers() (root_state.cpp): each copies the
   message's list into a function-static vector and returns a reference to it *)

ResourceStates == {"r1", "r2"}
Threads        == {"t1", "t2"}
ListFns        == {"dependees", "dependers"}

\* m_message.dependees() / m_message.dependers() of each ResourceState
m_message(r) ==
    IF r = "r1" THEN [dependees |-> <<"x">>, dependers |-> <<"y">>]
    ELSE [dependees |-> <<"y", "z">>, dependers |-> <<>>]

\* contents of a vector after unsynchronised writes by two threads
Indeterminate == <<"?">>

NoListCall == [pc |-> "idle", fn |-> "none", r |-> "none", i |-> 0]

resourceIdle == <<nodeVars, api, cps, mgr, ps, pl, rpc, chn, sb, sch>>

\* some other thread is inside the same function: its writes to the static vector are
\* not ordered with this thread's
Races(t, fn) == \E u \in Threads \ {t} : rs.th[u].pc = "copying" /\ rs.th[u].fn = fn

\* a write of value v to the static vector of fn by thread t
StaticWrite(t, fn, v) ==
    IF Races(t, fn) THEN {v, Indeterminate} ELSE {v}

\* static std::vector<...> dependees_vector; dependees_vector.clear();
ListCall(t, fn, r) ==
    /\ rs.th[t].pc = "idle"
    /\ \E v \in StaticWrite(t, fn, <<>>) :
        rs' = [rs EXCEPT !.static[fn] = v,
                         !.th[t] = [pc |-> "copying", fn |-> fn, r |-> r, i |-> 1]]
    /\ UNCHANGED resourceIdle

\* for (const auto& dependee : m_message.dependees()) dependees_vector.push_back(dependee);
ListPush(t) ==
    LET c == rs.th[t] IN
    /\ c.pc = "copying"
    /\ c.i <= Len(m_message(c.r)[c.fn])
    /\ \E v \in StaticWrite(t, c.fn, Append(rs.static[c.fn], m_message(c.r)[c.fn][c.i])) :
        rs' = [rs EXCEPT !.static[c.fn] = v, !.th[t].i = c.i + 1]
    /\ UNCHANGED resourceIdle

\* return dependees_vector; the caller keeps the reference
ListReturn(t) ==
    LET c == rs.th[t] IN
    /\ c.pc = "copying"
    /\ c.i > Len(m_message(c.r)[c.fn])
    /\ rs' = [rs EXCEPT !.th[t] = NoListCall, !.held = @ \cup {<<c.fn, c.r>>}]
    /\ UNCHANGED resourceIdle

\* a caller lets go of a list it was given
ListDrop(h) ==
    /\ h \in rs.held
    /\ rs' = [rs EXCEPT !.held = @ \ {h}]
    /\ UNCHANGED resourceIdle

RsInit ==
    rs = [static |-> [f \in ListFns |-> <<>>],
          th     |-> [t \in Threads |-> NoListCall],
          held   |-> {}]

NextResource ==
    \/ \E t \in Threads, f \in ListFns, r \in ResourceStates : ListCall(t, f, r)
    \/ \E t \in Threads : ListPush(t)
    \/ \E t \in Threads : ListReturn(t)
    \/ \E h \in ListFns \X ResourceStates : ListDrop(h)

----------------------------------------------------------------------------
(* pipeline::Manager (manager.hpp declares push_updates and m_current_segments; the
   reconciliation itself is taken from the Pipeline Manager section of the
   specification) *)

SegmentAddresses == {"sa", "sb", "sc"}

managerIdle == <<nodeVars, api, cps, rs, ps, pl, rpc, chn, sb, sch>>

\* the diff between the received set S and the currently-running set C
Added(S, C)   == S \ C
RemovedAll(S, C) == C
Removed(S, C) == C \ S

\* Kill on a segment's runnables: they end at once, what they were handed is dropped
Runner_kill(a) ==
    [seg |-> "joined", req |-> "Kill", pending |-> 0, lost |-> mgr.pending[a] > 0]

\* Stop on a segment's runnables: the upstream closes, what they were handed drains
Runner_stop(a) ==
    [seg |-> "stopping", req |-> "Stop", pending |-> mgr.pending[a], lost |-> FALSE]

\* what the manager requests from a removed segment
RequestTermination(a) == Runner_stop(a)

\* construct the segment, wire its ports, start its runnables
StartSegment(a) ==
    [seg |-> "running", req |-> "none", pending |-> 0, lost |-> FALSE]

Untouched(a) ==
    [seg |-> mgr.seg[a], req |-> mgr.req[a], pending |-> mgr.pending[a], lost |-> FALSE]

\* void push_updates(SegmentAddresses&& segment_addresses).  A removed address is pushed
\* again only once its previous segment has joined.
push_updates(S) ==
    LET C == mgr.current
        after(a) == IF a \in Added(S, C) THEN StartSegment(a)
                    ELSE IF a \in Removed(S, C) THEN RequestTermination(a)
                    ELSE Untouched(a)
    IN
    /\ \A a \in Added(S, C) : mgr.seg[a] \in {"absent", "joined"}
    /\ mgr' = [current |-> S,
               flip    |-> ~mgr.flip,
               seg     |-> [a \in SegmentAddresses |-> after(a).seg],
               req     |-> [a \in SegmentAddresses |-> after(a).req],
               pending |-> [a \in SegmentAddresses |-> after(a).pending],
               lost    |-> mgr.lost \cup {a \in SegmentAddresses : after(a).lost}]
    /\ UNCHANGED managerIdle

\* an item is handed to a running segment by its upstream
SegmentHand(a) ==
    /\ mgr.seg[a] = "running"
    /\ mgr.pending[a] < MaxPending
    /\ mgr' = [mgr EXCEPT !.pending[a] = @ + 1]
    /\ UNCHANGED managerIdle

\* a segment's runnable handles one item it was handed
SegmentProcess(a) ==
    /\ mgr.seg[a] \in {"running", "stopping"}
    /\ mgr.pending[a] > 0
    /\ mgr' = [mgr EXCEPT !.pending[a] = @ - 1]
    /\ UNCHANGED managerIdle

\* a stopped segment's runnables complete once they have drained
SegmentJoin(a) ==
    /\ mgr.seg[a] = "stopping"
    /\ mgr.pending[a] = 0
    /\ mgr' = [mgr EXCEPT !.seg[a] = "joined"]
    /\ UNCHANGED managerIdle

MgrInit ==
    mgr = [current |-> {},
           flip    |-> FALSE,
           seg     |-> [a \in SegmentAddresses |-> "absent"],
           req     |-> [a \in SegmentAddresses |-> "none"],
           pending |-> [a \in SegmentAddresses |-> 0],
           lost    |-> {}]

NextManager ==
    \/ \E S \in SUBSET SegmentAddresses : push_updates(S)
    \/ \E a \in SegmentAddresses : SegmentHand(a)
    \/ \E a \in SegmentAddresses : SegmentProcess(a)
    \/ \E a \in SegmentAddresses : SegmentJoin(a)

----------------------------------------------------------------------------
(* Subscription service: PublisherManager::update_tagged_instances
   (publisher_manager.hpp) and the publisher / subscriber object it forwards to
   (subscriber.hpp declares update_tagged_instances, the handler registration and the
   members; their bodies are taken from the Subscription service section of the
   specification) *)

Tags      == {"t1", "t2"}
Instances == {"i1", "i2"}
Handlers  == {"h1", "h2"}

\* std::unordered_map<std::uint64_t, InstanceID>
TaggedInstances == UNION {[T -> Instances] : T \in SUBSET Tags}
EmptyMap == [t \in {} |-> "none"]

pubsubIdle == <<nodeVars, api, cps, rs, mgr, pl, rpc, chn, sb, sch>>

\* data_plane().client().endpoint_shared(instance_id)
endpoint_shared(i) == <<"endpoint", i>>

\* entry-wise update of a map: the tags of new are set, the other tags of old stay
MergeEntries(old, new) ==
    [t \in DOMAIN old \cup DOMAIN new |-> IF t \in DOMAIN new THEN new[t] ELSE old[t]]

\* m_tagged_instances = tagged_instances;
PublisherManager_assign(old, new) == new

\* for (const auto& [tag, instance_id] : m_tagged_instances) m_tagged_endpoints[tag] = ...
PublisherManager_endpoints(old, inst) ==
    [t \in DOMAIN old \cup DOMAIN inst |->
        IF t \in DOMAIN inst THEN endpoint_shared(inst[t]) ELSE old[t]]

\* the object's own m_tagged_instances, stored by its update_tagged_instances
SubscriberBase_assign(old, new) == new

\* void register_connections_changed_handler(connections_changed_handler_t on_changed_fn)
register_connections_changed_handler(h) ==
    /\ ps.pc = "idle"
    /\ h \notin {ps.m_on_connections_changed_fns[i] :
                    i \in DOMAIN ps.m_on_connections_changed_fns}
    /\ ps' = [ps EXCEPT !.m_on_connections_changed_fns = Append(@, h)]
    /\ UNCHANGED pubsubIdle

\* PublisherManager::update_tagged_instances(role, tagged_instances): the assignment
PublisherManager_update_tagged_instances(m) ==
    /\ ps.pc = "idle"
    /\ ps' = [ps EXCEPT !.pc = "endpoints", !.arg = m, !.via = "publisher", !.obs = <<>>,
                        !.registered = ps.m_on_connections_changed_fns,
                        !.mgr_tagged_instances = PublisherManager_assign(@, m)]
    /\ UNCHANGED pubsubIdle

\* ... the endpoints loop
PublisherManager_update_endpoints ==
    /\ ps.pc = "endpoints"
    /\ ps' = [ps EXCEPT !.pc = "forward",
                        !.m_tagged_endpoints =
                            PublisherManager_endpoints(@, ps.mgr_tagged_instances)]
    /\ UNCHANGED pubsubIdle

\* ... m_publisher->update_tagged_instances(tagged_instances): the object stores the map
PublisherManager_forward ==
    /\ ps.pc = "forward"
    /\ ps' = [ps EXCEPT !.pc = "handlers", !.idx = 1, !.updated = TRUE,
                        !.m_tagged_instances = SubscriberBase_assign(@, ps.arg)]
    /\ UNCHANGED pubsubIdle

\* SubscriberBase::update_tagged_instances(tagged_instances) delivered to a subscriber
SubscriberBase_update_tagged_instances(m) ==
    /\ ps.pc = "idle"
    /\ ps' = [ps EXCEPT !.pc = "handlers", !.idx = 1, !.updated = TRUE,
                        !.arg = m, !.via = "subscriber", !.obs = <<>>,
                        !.registered = ps.m_on_connections_changed_fns,
                        !.m_tagged_instances = SubscriberBase_assign(@, m)]
    /\ UNCHANGED pubsubIdle

\* the next registered handler is called with the map; it may also read the stored maps
\* (ps.registered: the handlers registered when the update was delivered)
InvokeHandler ==
    /\ ps.pc = "handlers"
    /\ ps.idx <= Len(ps.m_on_connections_changed_fns)
    /\ ps' = [ps EXCEPT !.idx = @ + 1,
                        !.obs = Append(@, [fn     |-> ps.m_on_connections_changed_fns[ps.idx],
                                           arg    |-> ps.arg,
                                           stored |-> ps.m_tagged_instances,
                                           mgr    |-> ps.mgr_tagged_instances])]
    /\ UNCHANGED pubsubIdle

\* update_tagged_instances returns
UpdateReturn ==
    /\ ps.pc = "handlers"
    /\ ps.idx > Len(ps.m_on_connections_changed_fns)
    /\ ps' = [ps EXCEPT !.pc = "idle"]
    /\ UNCHANGED pubsubIdle

PsInit ==
    ps = [pc |-> "idle", via |-> "none", arg |-> EmptyMap, idx |-> 1, updated |-> FALSE,
          obs |-> <<>>, registered |-> <<>>,
          mgr_tagged_instances |-> EmptyMap,
          m_tagged_endpoints   |-> EmptyMap,
          m_tagged_instances   |-> EmptyMap,
          m_on_connections_changed_fns |-> <<>>]

NextPubSub ==
    \/ \E h \in Handlers : register_connections_changed_handler(h)
    \/ \E m \in TaggedInstances : PublisherManager_update_tagged_instances(m)
    \/ PublisherManager_update_endpoints
    \/ PublisherManager_forward
    \/ \E m \in TaggedInstances : SubscriberBase_update_tagged_instances(m)
    \/ InvokeHandler
    \/ UpdateReturn

----------------------------------------------------------------------------
(* Executor running a pipeline (test_executor.cpp builds the pipelines and states what
   is expected; thread_engines.cpp makes the launchers of a thread-engine runnable; the
   channels, the runnable loop and the engines' scheduling are taken from the Data model,
   Runnable and Scheduling sections of the specification) *)

SingleSegmentTests == {"LifeCycleSingleSegment", "LifeCycleSingleSegmentOpMuxer",
                       "LifeCycleSingleSegmentOpMuxerOnThreads"}
ConcurrentSourceTests == {"LifeCycleSingleSegmentConcurrentSource",
                          "LifeCycleSingleSegmentConcurrentSourceWithStaggeredShutdown"}
FourSegmentTests == {"LifeCycle", "MultiNode"}
EngineTypes == {"Fiber", "Thread"}

\* a test and the engine type its source is launched on
Configs ==
    {[test |-> "LifeCycleSingleSegment", source_engine |-> e] : e \in EngineTypes}
    \cup {[test |-> "LifeCycleSingleSegmentOpMuxer", source_engine |-> "Fiber"],
          [test |-> "LifeCycleSingleSegmentOpMuxerOnThreads", source_engine |-> "Thread"],
          [test |-> "LifeCycle", source_engine |-> "Fiber"],
          [test |-> "MultiNode", source_engine |-> "Fiber"]}
    \cup {[test |-> t, source_engine |-> "Thread"] : t \in ConcurrentSourceTests}
NoConfig == [test |-> "none", source_engine |-> "none"]

Stage(name, kind, seg) == [name |-> name, kind |-> kind, seg |-> seg]

\* the nodes of the pipeline in the order the edges join them
Stages(t) ==
    IF t = "LifeCycleSingleSegment"
    THEN <<Stage("rx_source", "source", "seg_1"), Stage("scalar_x2", "node", "seg_1"),
           Stage("rx_sink", "sink", "seg_1")>>
    ELSE IF t \in FourSegmentTests
    THEN <<Stage("rx_source", "source", "seg_1"), Stage("my_int2", "port", "seg_1"),
           Stage("seg_2/node", "node", "seg_2"), Stage("my_int3", "port", "seg_2"),
           Stage("seg_3/node", "node", "seg_3"), Stage("my_int4", "port", "seg_3"),
           Stage("rx_sink", "sink", "seg_4")>>
    ELSE IF t = "none" THEN <<>>
    ELSE <<Stage("rx_source", "source", "seg_1"), Stage("rx_sink", "sink", "seg_1")>>

\* rx_source->launch_options().pe_count / engines_per_pe
pe_count(t, i)       == IF t \in ConcurrentSourceTests /\ i = 1 THEN 2 ELSE 1
engines_per_pe(t, i) == IF t \in ConcurrentSourceTests /\ i = 1 THEN 2 ELSE 1

\* the engine type the runnable of stage i is launched on
Engine(c, i) ==
    IF c.test = "LifeCycleSingleSegment" THEN (IF i = 1 THEN c.source_engine ELSE "Fiber")
    ELSE IF c.test = "LifeCycleSingleSegmentOpMuxerOnThreads"
            \/ c.test \in ConcurrentSourceTests THEN "Thread"
    ELSE "Fiber"

\* one launcher for every processing element and engine of it
AllEngines(P, E) == 1 .. (P * E)

\* ThreadEngines::initialize_launchers: for (j = 0; j < pe_count; ++j) add_launcher(...)
ThreadEngines_initialize_launchers(P, E) == 1 .. P

\* the launchers of a fiber-engine runnable
FiberEngines_initialize_launchers(P, E) == AllEngines(P, E)

\* the instances of stage i: one per launcher
RunnableInstances(c, i) ==
    IF Engine(c, i) = "Thread"
    THEN ThreadEngines_initialize_launchers(pe_count(c.test, i), engines_per_pe(c.test, i))
    ELSE FiberEngines_initialize_launchers(pe_count(c.test, i), engines_per_pe(c.test, i))

Runnables(c) ==
    UNION {{<<i, r>> : r \in RunnableInstances(c, i)} : i \in DOMAIN Stages(c.test)}
NoRunnable == <<0, 0>>

\* the executor a segment is enabled on
Executors(t) == IF t = "MultiNode" THEN {"machine_1", "machine_2"} ELSE {"executor"}
ExecutorOf(t, seg) ==
    IF t = "MultiNode" THEN (IF seg \in {"seg_1", "seg_3"} THEN "machine_1" ELSE "machine_2")
    ELSE "executor"

\* what instance r of the source function emits before on_completed
SourceItems(t, r) ==
    IF t \in SingleSegmentTests THEN <<1, 2, 3>>
    ELSE IF t \in ConcurrentSourceTests THEN << <<"thread", r>> >>
    ELSE [n \in 1 .. MaxEmit |-> <<n, <<>> >>]

\* identity: what a node emits for what it was given
PassThrough(t, name, v) == v

\* the function of a node: scalar_x2 doubles; the nodes of seg_2 and seg_3 and the ports
\* pass the value on (the value keeps where it has been, in order)
NodeFn(t, name, v) ==
    IF name = "scalar_x2" THEN 2 * v
    ELSE IF t \in FourSegmentTests THEN <<v[1], Append(v[2], name)>>
    ELSE v

pipelineIdle == <<nodeVars, api, cps, rs, mgr, ps, rpc, chn, sb, sch>>

PlStages == Stages(pl.cfg.test)
PlExec(x) == ExecutorOf(pl.cfg.test, PlStages[x[1]].seg)
PlKind(x) == PlStages[x[1]].kind
PlFull(i) == Len(pl.ch[i].q) >= ChanCapacity

\* the first completion closes the shared downstream
ReleaseEdgeFirst(writers, x) == [writers |-> writers \ {x}, closed |-> TRUE]

\* the upstream edge's holders after instance x released it, and whether that closes it
ReleaseEdge(writers, x) == [writers |-> writers \ {x}, closed |-> writers \ {x} = {}]

\* a fiber holds its carrier thread until it suspends or completes; a thread is its own
CanRun(x) ==
    \/ Engine(pl.cfg, x[1]) = "Thread"
    \/ pl.carrier[PlExec(x)] \in {NoRunnable, x}
CarrierAfter(x, done) ==
    IF Engine(pl.cfg, x[1]) = "Thread" THEN pl.carrier
    ELSE [pl.carrier EXCEPT ![PlExec(x)] = IF done THEN NoRunnable ELSE x]

\* executor.register_pipeline(std::move(pipeline))
register_pipeline(c) ==
    /\ pl.cfg = NoConfig
    /\ pl' = [cfg     |-> c,
              run     |-> [x \in Runnables(c) |-> [pc |-> "init", n |-> 1, hold |-> <<>>]],
              ch      |-> [i \in 1 .. (Len(Stages(c.test)) - 1) |->
                            [q |-> <<>>, closed |-> FALSE,
                             writers |-> {x \in Runnables(c) : x[1] = i}]],
              obs     |-> <<>>,
              taps    |-> [i \in DOMAIN Stages(c.test) |-> 0],
              carrier |-> [e \in Executors(c.test) |-> NoRunnable],
              started |-> [e \in Executors(c.test) |-> FALSE],
              joined  |-> [e \in Executors(c.test) |-> FALSE],
              unsubscribed |-> {},
              dropped |-> {}]
    /\ UNCHANGED pipelineIdle

\* executor.start(): the runnables of the executor's segments are queued on their engines
executor_start(e) ==
    /\ pl.cfg # NoConfig
    /\ e \in DOMAIN pl.started
    /\ ~pl.started[e]
    /\ pl' = [pl EXCEPT !.started[e] = TRUE,
                        !.run = [x \in DOMAIN pl.run |->
                                    IF PlExec(x) = e THEN [pl.run[x] EXCEPT !.pc = "queued"]
                                    ELSE pl.run[x]]]
    /\ UNCHANGED pipelineIdle

\* Queued -> Running on engine pickup
EnginePickup(x) ==
    /\ x \in DOMAIN pl.run
    /\ pl.run[x].pc = "queued"
    /\ CanRun(x)
    /\ pl' = [pl EXCEPT !.run[x].pc = "running", !.carrier = CarrierAfter(x, FALSE)]
    /\ UNCHANGED pipelineIdle

\* the source function: s.on_next(item) with its epilogue tap
SourceEmit(x) ==
    LET items == SourceItems(pl.cfg.test, x[2])
        n     == pl.run[x].n
    IN
    /\ x \in DOMAIN pl.run
    /\ PlKind(x) = "source"
    /\ pl.run[x].pc = "running"
    /\ CanRun(x)
    /\ n <= Len(items)
    /\ \/ /\ ~pl.ch[1].closed
          /\ ~PlFull(1)
          /\ pl' = [pl EXCEPT !.run[x].n = n + 1,
                              !.ch[1].q = Append(@, items[n]),
                              !.taps[1] = @ + 1,
                              !.carrier = CarrierAfter(x, FALSE)]
       \/ /\ pl.ch[1].closed       \* EXPECT_TRUE(s.is_subscribed()) fails; the item is lost
          /\ pl' = [pl EXCEPT !.run[x].n = n + 1,
                              !.unsubscribed = @ \cup {x},
                              !.dropped = @ \cup {items[n]},
                              !.carrier = CarrierAfter(x, FALSE)]
    /\ UNCHANGED pipelineIdle

\* s.on_completed(): the instance releases the downstream edge and its run returns
SourceComplete(x) ==
    LET rel == ReleaseEdge(pl.ch[1].writers, x) IN
    /\ x \in DOMAIN pl.run
    /\ PlKind(x) = "source"
    /\ pl.run[x].pc = "running"
    /\ CanRun(x)
    /\ pl.run[x].n > Len(SourceItems(pl.cfg.test, x[2]))
    /\ pl' = [pl EXCEPT !.run[x].pc = "completed",
                        !.ch[1].writers = rel.writers,
                        !.ch[1].closed = @ \/ rel.closed,
                        !.carrier = CarrierAfter(x, TRUE)]
    /\ UNCHANGED pipelineIdle

\* a node or port: read_status = in.await_read(x) returned success
NodeRead(x) ==
    LET i == x[1] IN
    /\ x \in DOMAIN pl.run
    /\ PlKind(x) \in {"node", "port"}
    /\ pl.run[x].pc = "running"
    /\ CanRun(x)
    /\ pl.run[x].hold = <<>>
    /\ pl.ch[i - 1].q # <<>>
    /\ pl' = [pl EXCEPT !.run[x].hold = <<Head(pl.ch[i - 1].q)>>,
                        !.ch[i - 1].q = Tail(@),
                        !.carrier = CarrierAfter(x, FALSE)]
    /\ UNCHANGED pipelineIdle

\* ... write_status = process(x): the node's function, its tap, await_write downstream
NodeWrite(x) ==
    LET i == x[1] IN
    /\ x \in DOMAIN pl.run
    /\ PlKind(x) \in {"node", "port"}
    /\ pl.run[x].pc = "running"
    /\ CanRun(x)
    /\ pl.run[x].hold # <<>>
    /\ ~PlFull(i)
    /\ pl' = [pl EXCEPT !.run[x].hold = <<>>,
                        !.ch[i].q = Append(@, NodeFn(pl.cfg.test, PlStages[i].name,
                                                     pl.run[x].hold[1])),
                        !.taps[i] = @ + 1,
                        !.carrier = CarrierAfter(x, FALSE)]
    /\ UNCHANGED pipelineIdle

\* ... await_read returned closed: the loop ends, the downstream edge is released
NodeComplete(x) ==
    LET i   == x[1]
        rel == ReleaseEdge(pl.ch[i].writers, x)
    IN
    /\ x \in DOMAIN pl.run
    /\ PlKind(x) \in {"node", "port"}
    /\ pl.run[x].pc = "running"
    /\ CanRun(x)
    /\ pl.run[x].hold = <<>>
    /\ pl.ch[i - 1].q = <<>>
    /\ pl.ch[i - 1].closed
    /\ pl' = [pl EXCEPT !.run[x].pc = "completed",
                        !.ch[i].writers = rel.writers,
                        !.ch[i].closed = @ \/ rel.closed,
                        !.carrier = CarrierAfter(x, TRUE)]
    /\ UNCHANGED pipelineIdle

\* the sink's observer is called with the next value
SinkObserve(x) ==
    LET i == x[1] IN
    /\ x \in DOMAIN pl.run
    /\ PlKind(x) = "sink"
    /\ pl.run[x].pc = "running"
    /\ CanRun(x)
    /\ pl.ch[i - 1].q # <<>>
    /\ pl' = [pl EXCEPT !.obs = Append(@, Head(pl.ch[i - 1].q)),
                        !.ch[i - 1].q = Tail(@),
                        !.taps[i] = @ + 1,
                        !.carrier = CarrierAfter(x, FALSE)]
    /\ UNCHANGED pipelineIdle

\* the sink's await_read returned closed
SinkComplete(x) ==
    LET i == x[1] IN
    /\ x \in DOMAIN pl.run
    /\ PlKind(x) = "sink"
    /\ pl.run[x].pc = "running"
    /\ CanRun(x)
    /\ pl.ch[i - 1].q = <<>>
    /\ pl.ch[i - 1].closed
    /\ pl' = [pl EXCEPT !.run[x].pc = "completed", !.carrier = CarrierAfter(x, TRUE)]
    /\ UNCHANGED pipelineIdle

\* the next await of running x would suspend it
Suspends(x) ==
    LET i == x[1] IN
    /\ pl.run[x].pc = "running"
    /\ IF PlKind(x) = "source"
       THEN pl.run[x].n <= Len(SourceItems(pl.cfg.test, x[2]))
            /\ PlFull(1) /\ ~pl.ch[1].closed
       ELSE IF PlKind(x) = "sink" THEN pl.ch[i - 1].q = <<>> /\ ~pl.ch[i - 1].closed
       ELSE IF pl.run[x].hold = <<>> THEN pl.ch[i - 1].q = <<>> /\ ~pl.ch[i - 1].closed
       ELSE PlFull(i)

\* a fiber suspended in await_read / await_write gives up its carrier thread
FiberYield(x) ==
    /\ x \in DOMAIN pl.run
    /\ pl.carrier[PlExec(x)] = x
    /\ Suspends(x)
    /\ pl' = [pl EXCEPT !.carrier[PlExec(x)] = NoRunnable]
    /\ UNCHANGED pipelineIdle

\* join() called on no executor before
JoinedBeforeNone(t, e) == {}

\* the executors the test joins before it calls join() on e: machine_2.join();
\* machine_1.join();
JoinedBefore(t, e) == IF t = "MultiNode" /\ e = "machine_1" THEN {"machine_2"} ELSE {}

\* executor.join() returns: every runnable of the executor has completed
executor_join(e) ==
    /\ e \in DOMAIN pl.started
    /\ pl.started[e]
    /\ ~pl.joined[e]
    /\ \A f \in JoinedBefore(pl.cfg.test, e) : pl.joined[f]
    /\ \A x \in DOMAIN pl.run : PlExec(x) = e => pl.run[x].pc = "completed"
    /\ pl' = [pl EXCEPT !.joined[e] = TRUE]
    /\ UNCHANGED pipelineIdle

AllRunnables == UNION {Runnables(c) : c \in Configs}
AllExecutors == {"executor", "machine_1", "machine_2"}

PlInit ==
    pl = [cfg |-> NoConfig, run |-> <<>>, ch |-> <<>>, obs |-> <<>>, taps |-> <<>>,
          carrier |-> <<>>, started |-> <<>>, joined |-> <<>>,
          unsubscribed |-> {}, dropped |-> {}]

NextPipeline ==
    \/ \E c \in Configs : register_pipeline(c)
    \/ \E e \in AllExecutors : executor_start(e)
    \/ \E x \in AllRunnables : EnginePickup(x)
    \/ \E x \in AllRunnables : SourceEmit(x)
    \/ \E x \in AllRunnables : SourceComplete(x)
    \/ \E x \in AllRunnables : NodeRead(x)
    \/ \E x \in AllRunnables : NodeWrite(x)
    \/ \E x \in AllRunnables : NodeComplete(x)
    \/ \E x \in AllRunnables : SinkObserve(x)
    \/ \E x \in AllRunnables : SinkComplete(x)
    \/ \E x \in AllRunnables : FiberYield(x)
    \/ \E e \in AllExecutors : executor_join(e)

----------------------------------------------------------------------------
(* Streaming ping-pong (test_grpc.cpp): the client's write / await_read loop and
   ServerHandler::on_data are the test's; the stream between them is an ordered link in
   each direction, and the handlers read from channels, as in the Channel and Ordering
   sections of the specification *)

BatchIds == {0, 1, 2}

rpcIdle == <<nodeVars, api, cps, rs, mgr, ps, pl, chn, sb, sch>>

\* mutant: the response does not carry the request's batch_id
ServerHandler_on_data_Fixed(incoming) ==
    IF incoming.ok THEN <<[batch_id |-> 0]>> ELSE <<>>

\* ServerHandler::on_data: if (data.ok) { response.set_batch_id(data.msg.batch_id());
\* data.stream->await_write(std::move(response)); }  -- the responses it writes
ServerHandler_on_data(incoming) ==
    IF incoming.ok THEN <<[batch_id |-> incoming.msg.batch_id]>> ELSE <<>>

\* request.set_batch_id(i); client_writer->await_write(std::move(request));
ClientWrite(id) ==
    /\ rpc.pc = "write"
    /\ rpc.i <= MaxRequests
    /\ rpc' = [rpc EXCEPT !.pc = "read",
                          !.c2s = Append(@, [kind |-> "request", batch_id |-> id]),
                          !.sent = Append(@, id)]
    /\ UNCHANGED rpcIdle

\* the server stream's reader hands the next request to the handler's channel
ServerRead ==
    /\ rpc.c2s # <<>>
    /\ rpc' = [rpc EXCEPT !.c2s = Tail(@),
                          !.server_in = Append(@, [ok  |-> Head(rpc.c2s).kind = "request",
                                                   msg |-> Head(rpc.c2s)])]
    /\ UNCHANGED rpcIdle

\* the handler's runnable takes the next IncomingData and calls on_data
ServerHandle ==
    /\ rpc.server_in # <<>>
    /\ rpc' = [rpc EXCEPT !.server_in = Tail(@),
                          !.s2c = @ \o ServerHandler_on_data(Head(rpc.server_in))]
    /\ UNCHANGED rpcIdle

\* the client stream's reader hands the next response to client_handler
ClientReaderRead ==
    /\ rpc.s2c # <<>>
    /\ rpc' = [rpc EXCEPT !.s2c = Tail(@), !.client_in = Append(@, Head(rpc.s2c))]
    /\ UNCHANGED rpcIdle

\* client_handler.egress().await_read(response); EXPECT_EQ(response.response.batch_id(), i)
ClientAwaitRead ==
    /\ rpc.pc = "read"
    /\ rpc.client_in # <<>>
    /\ rpc' = [rpc EXCEPT !.client_in = Tail(@),
                          !.responses = Append(@, Head(rpc.client_in).batch_id),
                          !.i = @ + 1,
                          !.pc = IF rpc.i = MaxRequests THEN "finish" ELSE "write"]
    /\ UNCHANGED rpcIdle

\* client_writer->finish(); client_writer.reset();
ClientFinish ==
    /\ rpc.pc = "finish"
    /\ rpc' = [rpc EXCEPT !.pc = "done", !.c2s = Append(@, [kind |-> "writes_done", batch_id |-> 0])]
    /\ UNCHANGED rpcIdle

RpcInit ==
    rpc = [pc |-> "write", i |-> 1, sent |-> <<>>, responses |-> <<>>,
           c2s |-> <<>>, server_in |-> <<>>, s2c |-> <<>>, client_in |-> <<>>]

NextRpc ==
    \/ \E id \in BatchIds : ClientWrite(id)
    \/ ServerRead
    \/ ServerHandle
    \/ ClientReaderRead
    \/ ClientAwaitRead
    \/ ClientFinish

----------------------------------------------------------------------------
(* Channel<T> (the Channel sections of the specification; router.hpp gives every
   Downstream of a static router a BufferedChannel written by the router and read by
   the child node) *)

Writers == {"w1", "w2"}
Readers == {"r1", "r2"}
Participants == Writers \cup Readers

channelIdle == <<nodeVars, api, cps, rs, mgr, ps, pl, rpc, sb, sch>>

Idle == [pc |-> "idle", woken |-> FALSE, val |-> 0]
Waiting(th, S) == {p \in S : th[p].pc = "suspended" /\ ~th[p].woken}

\* mutant: a closed channel still takes values
WriteOutcomeOpen(closed_, full) == IF full THEN "suspend" ELSE "success"

\* await_write: closed if closed; block while full; else enqueue
WriteOutcome(closed_, full) ==
    IF closed_ THEN "closed" ELSE IF full THEN "suspend" ELSE "success"

\* await_read: dequeue; block while empty and not closed; closed when empty after close
ReadOutcome(closed_, empty) ==
    IF ~empty THEN "success" ELSE IF closed_ THEN "closed" ELSE "suspend"

\* mutant: the value taken is the newest one
DequeueNewest(q) == [val |-> q[Len(q)], rest |-> SubSeq(q, 1, Len(q) - 1)]

\* the value a read takes and what stays queued
Dequeue(q) == [val |-> Head(q), rest |-> Tail(q)]

\* one waiter of S is woken, if there is one
WakeOne(th, S) ==
    IF Waiting(th, S) = {} THEN {th}
    ELSE {[th EXCEPT ![p].woken = TRUE] : p \in Waiting(th, S)}

\* every waiter is woken
WakeAll(th) ==
    [p \in Participants |-> IF th[p].pc = "suspended" THEN [th[p] EXCEPT !.woken = TRUE]
                            ELSE th[p]]

\* the channel is created for its writers and readers
make_channel(wset, rset) ==
    /\ ~chn.made
    /\ chn' = [chn EXCEPT !.made = TRUE, !.ws = wset, !.rs = rset]
    /\ UNCHANGED channelIdle

\* a write of v by w, the calls-th write call made, ends with status out
WriteEnds(w, v, out, th, calls) ==
    \E th2 \in (IF out = "success" THEN WakeOne(th, chn.rs) ELSE {th}) :
        chn' = [chn EXCEPT !.th = [th2 EXCEPT ![w] = Idle],
                           !.q = IF out = "success" THEN Append(@, v) ELSE @,
                           !.accepted = IF out = "success" THEN Append(@, v) ELSE @,
                           !.last = [p |-> w, op |-> "write", status |-> out, val |-> v],
                           !.n = calls,
                           !.flip = ~@]

\* a read by r ends with status out
ReadEnds(r, out, th) ==
    LET d == IF out = "success" THEN Dequeue(chn.q) ELSE [val |-> 0, rest |-> chn.q] IN
    \E th2 \in (IF out = "success" THEN WakeOne(th, chn.ws) ELSE {th}) :
        chn' = [chn EXCEPT !.th = [th2 EXCEPT ![r] = Idle],
                           !.q = d.rest,
                           !.returned = IF out = "success" THEN Append(@, d.val) ELSE @,
                           !.drained = IF out = "success" /\ chn.closed THEN @ + 1 ELSE @,
                           !.last = [p |-> r, op |-> "read", status |-> out, val |-> d.val],
                           !.flip = ~@]

\* await_write(T&&) -> Status
Channel_await_write(w) ==
    LET out == WriteOutcome(chn.closed, Len(chn.q) >= ChanCapacity) IN
    /\ chn.made /\ w \in chn.ws
    /\ chn.th[w].pc = "idle"
    /\ chn.n < MaxWrites
    /\ IF out = "suspend"
       THEN chn' = [chn EXCEPT !.n = @ + 1,
                               !.th[w] = [pc |-> "suspended", woken |-> FALSE, val |-> chn.n + 1]]
       ELSE WriteEnds(w, chn.n + 1, out, chn.th, chn.n + 1)
    /\ UNCHANGED channelIdle

\* try_write: the non-blocking variant
Channel_try_write(w) ==
    LET out == WriteOutcome(chn.closed, Len(chn.q) >= ChanCapacity) IN
    /\ chn.made /\ w \in chn.ws
    /\ chn.th[w].pc = "idle"
    /\ chn.n < MaxWrites
    /\ WriteEnds(w, chn.n + 1, IF out = "suspend" THEN "timeout" ELSE out, chn.th, chn.n + 1)
    /\ UNCHANGED channelIdle

\* a woken writer looks at the channel again
Channel_write_resume(w) ==
    LET out == WriteOutcome(chn.closed, Len(chn.q) >= ChanCapacity) IN
    /\ chn.made /\ w \in chn.ws
    /\ chn.th[w].pc = "suspended" /\ chn.th[w].woken
    /\ IF out = "suspend"
       THEN chn' = [chn EXCEPT !.th[w].woken = FALSE]
       ELSE WriteEnds(w, chn.th[w].val, out, chn.th, chn.n)
    /\ UNCHANGED channelIdle

\* await_read(T&) -> Status
Channel_await_read(r) ==
    LET out == ReadOutcome(chn.closed, chn.q = <<>>) IN
    /\ chn.made /\ r \in chn.rs
    /\ chn.th[r].pc = "idle"
    /\ IF out = "suspend"
       THEN chn' = [chn EXCEPT !.th[r] = [pc |-> "suspended", woken |-> FALSE, val |-> 0]]
       ELSE ReadEnds(r, out, chn.th)
    /\ UNCHANGED channelIdle

\* try_read: the non-blocking variant
Channel_try_read(r) ==
    LET out == ReadOutcome(chn.closed, chn.q = <<>>) IN
    /\ chn.made /\ r \in chn.rs
    /\ chn.th[r].pc = "idle"
    /\ ReadEnds(r, IF out = "suspend" THEN "timeout" ELSE out, chn.th)
    /\ UNCHANGED channelIdle

\* a woken reader looks at the channel again
Channel_read_resume(r) ==
    LET out == ReadOutcome(chn.closed, chn.q = <<>>) IN
    /\ chn.made /\ r \in chn.rs
    /\ chn.th[r].pc = "suspended" /\ chn.th[r].woken
    /\ IF out = "suspend"
       THEN chn' = [chn EXCEPT !.th[r].woken = FALSE]
       ELSE ReadEnds(r, out, chn.th)
    /\ UNCHANGED channelIdle

\* the channel after close()
Close(c) ==
    [c EXCEPT !.closed = TRUE, !.th = WakeAll(c.th),
              !.woke = @ \cup Waiting(c.th, Participants)]

\* close(): idempotent; wakes all waiters
Channel_close(p) ==
    /\ chn.made /\ p \in chn.ws \cup chn.rs
    /\ chn.th[p].pc = "idle"
    /\ chn' = Close(chn)
    /\ UNCHANGED channelIdle

ChnInit ==
    chn = [made |-> FALSE, ws |-> {}, rs |-> {}, q |-> <<>>, closed |-> FALSE,
           woke |-> {}, drained |-> 0, n |-> 0, flip |-> FALSE,
           th |-> [p \in Participants |-> Idle],
           accepted |-> <<>>, returned |-> <<>>,
           last |-> [p |-> "none", op |-> "none", status |-> "none", val |-> 0]]

NextChannel ==
    \/ \E wset \in SUBSET Writers \ {{}}, rset \in SUBSET Readers \ {{}} :
            make_channel(wset, rset)
    \/ \E w \in Writers : Channel_await_write(w)
    \/ \E w \in Writers : Channel_try_write(w)
    \/ \E w \in Writers : Channel_write_resume(w)
    \/ \E r \in Readers : Channel_await_read(r)
    \/ \E r \in Readers : Channel_try_read(r)
    \/ \E r \in Readers : Channel_read_resume(r)
    \/ \E p \in Participants : Channel_close(p)

----------------------------------------------------------------------------
(* Subscriber::do_link_service and make_subscriber (subscriber.hpp): the SubscriberEdge is
   held by a shared_ptr whose deleter calls the drop-service function *)

Subscribers == {"sub1", "sub2"}
Callers == {"c1", "c2", "c3"}                 \* shared_ptr copies held by the caller
Owners == {"edge", "promise"} \cup Callers    \* the local, the promise's state, the copies

subscriberIdle == <<nodeVars, api, cps, rs, mgr, ps, pl, rpc, chn, sch>>

\* the last owner gone: the deleter runs drop_service_fn() and deletes the edge
Released(e, o) ==
    IF e.owners \ {o} = {}
    THEN [e EXCEPT !.owners = {}, !.drops = @ + 1, !.deleted = TRUE]
    ELSE [e EXCEPT !.owners = @ \ {o}]

\* std::move of a shared_ptr: the target owns, the source is left empty
Moved(e, from, to) == [e EXCEPT !.owners = (@ \ {from}) \cup {to}]

\* mutant: the future hands out a copy and the promise keeps its own
Future_get_Copy(e) == [e EXCEPT !.owners = @ \cup {"c1"}]

\* pub_edge_future.get(): the value is moved out of the promise's state
Future_get(e) == Moved(e, "promise", "c1")

\* make_subscriber up to make_pub_service: the subscriber exists, its edge future is taken
make_subscriber(s) ==
    /\ sb[s].pc = "none"
    /\ sb' = [sb EXCEPT ![s].pc = "built"]
    /\ UNCHANGED subscriberIdle

\* do_link_service: edge = shared_ptr(new SubscriberEdge, deleter); ...;
\* m_edge_promise.set_value(std::move(edge))
Subscriber_do_link_service(s) ==
    /\ sb[s].pc = "built"
    /\ sb' = [sb EXCEPT ![s] = Moved([@ EXCEPT !.pc = "linked", !.owners = {"edge"}],
                                     "edge", "promise")]
    /\ UNCHANGED subscriberIdle

\* return pub_edge_future.get()
make_subscriber_return(s) ==
    /\ sb[s].pc = "linked"
    /\ sb' = [sb EXCEPT ![s] = Future_get([@ EXCEPT !.pc = "returned"])]
    /\ UNCHANGED subscriberIdle

\* the caller copies the shared_ptr it holds
EdgeCopy(s, c) ==
    /\ sb[s].pc = "returned"
    /\ sb[s].owners \cap Callers # {}
    /\ c \in Callers \ sb[s].owners
    /\ sb' = [sb EXCEPT ![s].owners = @ \cup {c}]
    /\ UNCHANGED subscriberIdle

\* the caller resets or destroys one of its copies
EdgeRelease(s, c) ==
    /\ sb[s].pc = "returned"
    /\ c \in sb[s].owners \cap Callers
    /\ sb' = [sb EXCEPT ![s] = Released(@, c)]
    /\ UNCHANGED subscriberIdle

SbInit ==
    sb = [s \in Subscribers |-> [pc |-> "none", owners |-> {}, drops |-> 0,
                                 deleted |-> FALSE]]

NextSubscriber ==
    \/ \E s \in Subscribers : make_subscriber(s)
    \/ \E s \in Subscribers : Subscriber_do_link_service(s)
    \/ \E s \in Subscribers : make_subscriber_return(s)
    \/ \E s \in Subscribers, c \in Callers : EdgeCopy(s, c)
    \/ \E s \in Subscribers, c \in Callers : EdgeRelease(s, c)

----------------------------------------------------------------------------
(* srf_scheduler::new_worker (rx_thread_factory.hpp): the constructor, the lifetime
   callback, the worker loop and schedule() *)

Times == 0..MaxTime
NoAction == [id |-> 0, when |-> 0]

schedulerIdle == <<nodeVars, api, cps, rs, mgr, ps, pl, rpc, chn, sb>>

\* mutant: the queue hands out the entry pushed first
FirstPushed(q) == CHOOSE x \in q : \A y \in q : x.id <= y.id

\* q.top(): the entry with the earliest time, the one pushed first among equal times
Top(q) ==
    CHOOSE x \in q : \A y \in q : x.when < y.when \/ (x.when = y.when /\ x.id <= y.id)

\* clock_type::now() advances
Tick ==
    /\ sch.ctor # "none"
    /\ sch.now < MaxTime
    /\ sch' = [sch EXCEPT !.now = @ + 1]
    /\ UNCHANGED schedulerIdle

\* new_worker(cs, tf) up to state->worker_future.wait(): the lifetime callback is added,
\* the loop task is started
create_worker ==
    /\ sch.ctor = "none"
    /\ sch' = [sch EXCEPT !.ctor = "waiting", !.loop = "top"]
    /\ UNCHANGED schedulerIdle

\* state->worker_future.wait() returns and the constructor with it
create_worker_return ==
    /\ sch.ctor = "waiting"
    /\ sch.loop = "exited"
    /\ sch' = [sch EXCEPT !.ctor = "returned"]
    /\ UNCHANGED schedulerIdle

\* schedule(when, scbl): pushed if scbl.is_subscribed(); wake.notify_one()
schedule(when, is_subscribed) ==
    /\ sch.ctor # "none"
    /\ sch.n < MaxActions
    /\ sch' = [sch EXCEPT !.n = @ + 1,
                          !.live = IF is_subscribed THEN @ \cup {sch.n + 1} ELSE @,
                          !.dropped = IF is_subscribed THEN @ ELSE @ \cup {sch.n + 1},
                          !.q = IF is_subscribed
                                THEN @ \cup {[id |-> sch.n + 1, when |-> when]} ELSE @]
    /\ UNCHANGED schedulerIdle

\* the subscription of a scheduled action is cancelled
Cancel(id) ==
    /\ id \in sch.live
    /\ \E x \in sch.q : x.id = id
    /\ sch' = [sch EXCEPT !.live = @ \ {id}]
    /\ UNCHANGED schedulerIdle

\* the loop body from taking the lock to the wait, the break or the unlock
WorkerLoop ==
    /\ sch.loop = "top"
    /\ IF sch.q = {} /\ sch.lifetime
       THEN sch' = [sch EXCEPT !.loop = "wait"]
       ELSE IF ~sch.lifetime
       THEN sch' = [sch EXCEPT !.loop = "exited"]
       ELSE LET peek == Top(sch.q) IN
            IF peek.id \notin sch.live
            THEN sch' = [sch EXCEPT !.q = @ \ {peek}]
            ELSE IF sch.now < peek.when
            THEN sch' = [sch EXCEPT !.loop = "wait_until"]
            ELSE sch' = [sch EXCEPT !.q = @ \ {peek}, !.loop = "run", !.cur = peek,
                                    !.executed = Append(@, peek),
                                    !.early = @ \/ sch.now < peek.when,
                                    !.overtaken = @ \/ \E y \in sch.q : y.when < peek.when,
                                    !.late = @ \/ sch.unsub = "returned"]
    /\ UNCHANGED schedulerIdle

\* wake.wait(guard, pred) returns: the lifetime is over or the queue is not empty
WorkerWake ==
    /\ sch.loop = "wait"
    /\ ~sch.lifetime \/ sch.q # {}
    /\ sch' = [sch EXCEPT !.loop = "top"]
    /\ UNCHANGED schedulerIdle

\* wake.wait_until(guard, when) returns: notified, timed out or woken spuriously
WorkerWakeTimed ==
    /\ sch.loop = "wait_until"
    /\ sch' = [sch EXCEPT !.loop = "top"]
    /\ UNCHANGED schedulerIdle

\* what(...) returns to the loop; an action that unsubscribed the lifetime returns when
\* its unsubscribe call has
ActionReturn ==
    /\ sch.loop = "run"
    /\ sch.by = "action" => sch.unsub = "returned"
    /\ sch' = [sch EXCEPT !.loop = "top", !.cur = NoAction]
    /\ UNCHANGED schedulerIdle

\* lifetime.unsubscribe() by another thread or by the action the loop is executing: the
\* subscription is marked unsubscribed, then the callback is called
unsubscribe(by) ==
    /\ sch.ctor # "none"
    /\ sch.lifetime
    /\ by = "action" => sch.loop = "run"
    /\ sch' = [sch EXCEPT !.lifetime = FALSE, !.unsub = "callback", !.by = by]
    /\ UNCHANGED schedulerIdle

\* expired = std::move(q); q = queue_item_time{}
Discard(q) == {}

\* the callback under the lock: the queue is discarded, wake.notify_one()
LifetimeCallback ==
    /\ sch.unsub = "callback"
    /\ sch' = [sch EXCEPT !.q = Discard(@), !.unsub = "join"]
    /\ UNCHANGED schedulerIdle

\* keepAlive->worker_future.wait() returns and the callback with it
LifetimeCallbackReturn ==
    /\ sch.unsub = "join"
    /\ sch.loop = "exited"
    /\ sch' = [sch EXCEPT !.unsub = "returned"]
    /\ UNCHANGED schedulerIdle

SchInit ==
    sch = [ctor |-> "none", loop |-> "none", lifetime |-> TRUE, unsub |-> "none",
           by |-> "none", now |-> 0, n |-> 0, live |-> {}, dropped |-> {}, q |-> {},
           cur |-> NoAction,
           executed |-> <<>>, early |-> FALSE, overtaken |-> FALSE, late |-> FALSE]

NextScheduler ==
    \/ Tick
    \/ create_worker
    \/ create_worker_return
    \/ \E when \in Times, is_subscribed \in BOOLEAN : schedule(when, is_subscribed)
    \/ \E id \in 1..MaxActions : Cancel(id)
    \/ WorkerLoop
    \/ WorkerWake
    \/ WorkerWakeTimed
    \/ ActionReturn
    \/ \E by \in {"thread", "action"} : unsubscribe(by)
    \/ LifetimeCallback
    \/ LifetimeCallbackReturn

----------------------------------------------------------------------------

NoCall == [op |-> "none", key |-> "none", ok |-> FALSE]

\* the components outside the routers, before anything is done with them
ExtInit ==
    /\ api = NoCall
    /\ CpsInit
    /\ RsInit
    /\ MgrInit
    /\ PsInit
    /\ PlInit
    /\ RpcInit
    /\ ChnInit
    /\ SbInit
    /\ SchInit

ExtIdle == UNCHANGED extVars

Init ==
    /\ ExtInit
    /\ variant \in Variants
    /\ m_edges = [k \in Keys |-> NoEdge]
    /\ m_downstreams = IF variant \in RouterBaseVariants THEN {} ELSE RouteKeys
    /\ closed = [s \in Sinks |-> FALSE]
    /\ written = [s \in Sinks |-> <<>>]
    /\ up = [q |-> <<>>, closed |-> FALSE]
    /\ inputs = <<>>
    /\ pc = IF IsRunnable THEN "idle" ELSE "none"
    /\ data = NoItem
    /\ read_status = "success"
    /\ write_status = "success"
    /\ stop_requested = FALSE
    /\ state = "Init"
    /\ thrown = "none"
    /\ last = NoLast
    /\ lastRead = "none"
    /\ nTaken = 0
    /\ nProcessed = 0
    /\ wiringChanged = FALSE
    /\ kill = [steps |-> 0, deq |-> 0, fwd |-> 0]

Next ==
    \/ \E d \in Inputs(nTaken + 1) : OnNext(d) /\ ExtIdle
    \/ OnComplete /\ ExtIdle
    \/ \E k \in Keys, s \in Sinks : Bind(k, s) /\ ExtIdle
    \/ \E s \in Sinks : SinkClose(s) /\ ExtIdle
    \/ \E d \in Inputs(Len(inputs) + 1) : UpstreamWrite(d) /\ ExtIdle
    \/ UpstreamClose /\ ExtIdle
    \/ \E s \in States : OnStateUpdate(s) /\ ExtIdle
    \/ RunStart /\ ExtIdle
    \/ RunCheckStop /\ ExtIdle
    \/ RunAwaitRead /\ ExtIdle
    \/ RunReadFault /\ ExtIdle
    \/ RunProcessOne /\ ExtIdle
    \/ RunExit /\ ExtIdle

Spec == Init /\ [][Next]_vars

----------------------------------------------------------------------------
(* The runnable router alone, scheduled by its engine *)

InitRun == Init /\ IsRunnable

NextRun ==
    \/ \E k \in Keys, s \in Sinks : Bind(k, s) /\ ExtIdle
    \/ \E s \in Sinks : SinkClose(s) /\ ExtIdle
    \/ \E d \in Inputs(Len(inputs) + 1) : UpstreamWrite(d) /\ ExtIdle
    \/ UpstreamClose /\ ExtIdle
    \/ \E s \in States : OnStateUpdate(s) /\ ExtIdle
    \/ RunStart /\ ExtIdle
    \/ RunCheckStop /\ ExtIdle
    \/ RunAwaitRead /\ ExtIdle
    \/ RunReadFault /\ ExtIdle
    \/ RunProcessOne /\ ExtIdle
    \/ RunExit /\ ExtIdle

\* the engine keeps running the runnable while a step of run() is possible
SpecRun == InitRun /\ [][NextRun]_vars /\ WF_vars(Run /\ ExtIdle)

----------------------------------------------------------------------------
(* The runnable router, wired and running, with a well-behaved environment: every item
   has a routed key the key function accepts, no downstream goes away, the readable edge
   reports no error or timeout, and the runner requests Stop but never Kill *)

InitDrain ==
    /\ ExtInit
    /\ variant = "LambdaStaticRouterRunnable"
    /\ m_edges = [k \in Keys |-> IF k \in RouteKeys THEN Dn(k) ELSE NoEdge]
    /\ m_downstreams = RouteKeys
    /\ closed = [s \in Sinks |-> FALSE]
    /\ written = [s \in Sinks |-> <<>>]
    /\ up = [q |-> <<>>, closed |-> FALSE]
    /\ inputs = <<>>
    /\ pc = "idle"
    /\ data = NoItem
    /\ read_status = "success"
    /\ write_status = "success"
    /\ stop_requested = FALSE
    /\ state = "Running"
    /\ thrown = "none"
    /\ last = NoLast
    /\ lastRead = "none"
    /\ nTaken = 0
    /\ nProcessed = 0
    /\ wiringChanged = FALSE
    /\ kill = [steps |-> 0, deq |-> 0, fwd |-> 0]

NextDrain ==
    \/ \E k \in RouteKeys : UpstreamWrite(<<k, Len(inputs) + 1>>) /\ ExtIdle
    \/ UpstreamClose /\ ExtIdle
    \/ OnStateUpdate("Stop") /\ ExtIdle
    \/ RunStart /\ ExtIdle
    \/ RunCheckStop /\ ExtIdle
    \/ RunAwaitRead /\ ExtIdle
    \/ RunProcessOne /\ ExtIdle
    \/ RunExit /\ ExtIdle

SpecDrain == InitDrain /\ [][NextDrain]_vars /\ WF_vars(Run /\ ExtIdle)

----------------------------------------------------------------------------
(* The key set of a router: get_source, has_source, drop_source, with items routed
   in between *)

keysIdle == <<cps, rs, mgr, ps, pl, rpc, chn, sb, sch>>

NextKeys ==
    \/ \E k \in Keys : GetSource(k) /\ UNCHANGED keysIdle
    \/ \E k \in Keys : DropSource(k) /\ UNCHANGED keysIdle
    \/ \E k \in Keys : Bind(k, IF k \in RouteKeys THEN Dn(k) ELSE "dx") /\ ExtIdle
    \/ \E k \in Keys : nTaken < MaxKeyItems /\ OnNext(<<k, nTaken + 1>>) /\ ExtIdle
    \/ OnComplete /\ ExtIdle

SpecKeys == Init /\ [][NextKeys]_vars

----------------------------------------------------------------------------
(* The control-plane state alone *)

InitState == Init /\ variant = "LambdaStaticRouterRunnable"

SpecState == InitState /\ [][NextState]_vars

----------------------------------------------------------------------------
(* ResourceState list accessors called from two threads *)

SpecResource == InitState /\ [][NextResource]_vars

----------------------------------------------------------------------------
(* Pipeline manager reconciling pushed segment-address sets *)

SpecManager == InitState /\ [][NextManager]_vars

----------------------------------------------------------------------------
(* Tagged-instances updates delivered to a publisher or a subscriber *)

SpecPubSub == InitState /\ [][NextPubSub]_vars

----------------------------------------------------------------------------
(* Executors running the pipelines of the executor tests *)

SpecPipeline == InitState /\ [][NextPipeline]_vars

----------------------------------------------------------------------------
(* The streaming ping-pong exchange *)

SpecRpc == InitState /\ [][NextRpc]_vars

----------------------------------------------------------------------------
(* A channel used by its writers and readers *)

SpecChannel == InitState /\ [][NextChannel]_vars

----------------------------------------------------------------------------
(* Subscribers made by make_subscriber and the edges handed to their callers *)

SpecSubscriber == InitState /\ [][NextSubscriber]_vars

----------------------------------------------------------------------------
(* A scheduler worker with the threads that schedule on it and end its lifetime *)

SpecScheduler == InitState /\ [][NextScheduler]_vars

----------------------------------------------------------------------------
(* Properties *)

Processed == nProcessed > 0

\* the key function raises on item d
KeyRaises(d) == ~determine_key_for_value(d).ok

\* the key function yields a key for d and the convert function raises on it
ConvRaises(d) == variant \in ConvertVariants /\ ~KeyRaises(d) /\ ~convert_value(d).ok

\* the payloads of the items of seq whose first component is k, in order
Proj(seq, k) ==
    LET f == SelectSeq(seq, LAMBDA d : d[1] = k) IN [i \in 1..Len(f) |-> f[i][2]]

IsPrefix(p, q) == Len(p) <= Len(q) /\ \A i \in 1..Len(p) : p[i] = q[i]

\* C1 Router key dispatch: an item whose key function yields k while an edge is bound for
\* k (and whose conversion, if any, succeeds) is written with one await_write to the edge
\* bound for k; no step changes what any other downstream received.
KeyDispatchLast ==
    (Processed /\ ~KeyRaises(last.item) /\ ~ConvRaises(last.item) /\ last.edge # NoEdge)
        => (Len(last.attempts) = 1 /\ last.attempts[1][1] = last.edge)

KeyDispatchStep ==
    \A s \in Sinks :
        written'[s] # written[s]
            => /\ nProcessed' = nProcessed + 1
               /\ last'.edge = s
               /\ Len(written'[s]) = Len(written[s]) + 1

KeyDispatch == []KeyDispatchLast /\ [][KeyDispatchStep]_vars

KeyDispatchWitness ==
    /\ variant = "LambdaStaticRouterRunnable"
    /\ last.item = <<"b", 2>>
    /\ written = [s \in Sinks |-> IF s = "d_a" THEN << <<"a", 1>> >>
                                  ELSE IF s = "d_b" THEN << <<"b", 2>> >> ELSE <<>>]

\* C2 Router totality: every item the router has taken is in flight to process_one or was
\* handed to on_next / process_one, and for every item handed over one await_write was
\* attempted or error was returned.
RouterTotality ==
    /\ nTaken = nProcessed + (IF pc = "body" THEN 1 ELSE 0)
    /\ Processed => (Len(last.attempts) = 1 \/ last.ret = "error")

\* C3 Unbound key: when the key computed for an item has no edge bound, the call returns
\* error, no exception leaves it and it writes to no downstream.
UnboundKeyIsError ==
    (Processed /\ ~KeyRaises(last.item) /\ last.edge = NoEdge)
        => (last.ret = "error" /\ ~last.escaped /\ last.attempts = <<>> /\ thrown # "escaped")

UnboundKeyWitness ==
    /\ variant = "LambdaStaticRouterRunnable"
    /\ last.item = <<"z", 2>>
    /\ last.ret = "error"
    /\ m_edges["a"] = "d_a"
    /\ written["d_a"] = << <<"a", 1>> >>

TaggedDelivery ==
    (/\ variant = "TaggedRouter"
     /\ ~wiringChanged
     /\ \A i \in 1..Len(inputs) : m_edges[inputs[i][1]] # NoEdge
     /\ \A k \in Keys : m_edges[k] # NoEdge => ~closed[m_edges[k]]
     /\ \A j, k \in Keys : (j # k /\ m_edges[j] # NoEdge) => m_edges[j] # m_edges[k])
        => \A k \in Keys : m_edges[k] # NoEdge => written[m_edges[k]] = Proj(inputs, k)

TaggedDeliveryWitness ==
    /\ variant = "TaggedRouter"
    /\ ~wiringChanged
    /\ inputs = << <<"a", 1>>, <<"b", 2>>, <<"a", 3>> >>
    /\ written["d_a"] = <<1, 3>>
    /\ written["d_b"] = <<2>>

ErrorIsItemLevelStep ==
    /\ (variant \in ComponentVariants /\ nProcessed' # nProcessed) => m_edges' = m_edges
    /\ (IsRunnable /\ Processed /\ last.ret = "error") => nProcessed' = nProcessed

ErrorIsItemLevelExit ==
    (IsRunnable /\ pc = "done" /\ Processed /\ last.ret = "error")
        => (thrown \in {"read", "write"} /\ \A k \in Keys : m_edges[k] = NoEdge)

StopTokenStep ==
    /\ (state' = "Stop" /\ state # "Stop") => (~stop_requested /\ ~stop_requested')
    /\ (state' = "Kill" /\ state # "Kill") => stop_requested'
    /\ stop_requested' # stop_requested => (state' = "Kill" /\ state # "Kill")
    /\ stop_requested => stop_requested'

StopToken == [][StopTokenStep]_vars

StopTokenWitness ==
    /\ state = "Kill"
    /\ stop_requested
    /\ pc = "done"
    /\ nProcessed > 0

\* C8 Graceful stop drains: once Stop is requested, every item the upstream channel
\* accepted is eventually written to the downstream of its key, and run() has exited only
\* when the upstream is closed and every accepted item was written.
Delivered(i) ==
    /\ i <= Len(inputs)
    /\ LET k == inputs[i][1] IN
       IsPrefix(SelectSeq(SubSeq(inputs, 1, i), LAMBDA d : d[1] = k), written[Dn(k)])

GracefulStopDrains ==
    /\ \A i \in 1..MaxUpstream : (state = "Stop" /\ Len(inputs) >= i) ~> Delivered(i)
    /\ [](pc = "done" => (up.closed /\ \A i \in 1..Len(inputs) : Delivered(i)))

GracefulStopWitness ==
    /\ state = "Stop"
    /\ pc = "done"
    /\ inputs = << <<"a", 1>>, <<"b", 2>> >>
    /\ written["d_a"] = << <<"a", 1>> >>
    /\ written["d_b"] = << <<"b", 2>> >>

\* C9 Kill terminates in bounded steps: once the stop token is set, run() dequeues at most
\* one more item, forwards at most one, takes at most four more steps and, evaluating its
\* loop condition, leaves the loop; unless it is suspended reading an empty open channel
\* it does exit.
KillPending ==
    /\ stop_requested
    /\ pc \in {"loop", "read", "body", "exit"}
    /\ ~(pc = "read" /\ up.q = <<>> /\ ~up.closed)

ExitRaises ==
    pc = "done"
        => thrown = (IF lastRead = "error" THEN "read"
                     ELSE IF Processed /\ last.ret = "error" THEN "write" ELSE "none")

\* C11 Static key set: for a static router has_source(k) is true exactly for the
\* constructor's route keys, a get_source call succeeds exactly for those keys, and no
\* step changes the set of keys that own a downstream.
StaticKeySetNow ==
    variant \in StaticVariants
        => /\ \A k \in Keys : has_source(k) <=> k \in RouteKeys
           /\ api.op = "get_source" => (api.ok <=> api.key \in RouteKeys)

StaticKeySet ==
    /\ []StaticKeySetNow
    /\ [][(variant \in StaticVariants) => (m_downstreams' = m_downstreams)]_vars

StaticKeySetWitness ==
    /\ variant = "LambdaStaticRouterComponent"
    /\ api = [op |-> "get_source", key |-> "z", ok |-> FALSE]
    /\ m_edges["a"] = "d_a"
    /\ last.ret = "success"

\* C12 Dynamic key set: on a dynamic router a get_source call succeeds for any key, a
\* key that gets an edge bound has has_source true, an item whose key has an open edge
\* bound is accepted by that edge, and drop_source(k) leaves has_source(k) false.
DynamicKeySetStep ==
    variant \notin StaticVariants
        => /\ \A k \in Keys : GetSource(k) => api'.ok
           /\ \A k \in Keys :
                (m_edges'[k] # m_edges[k] /\ m_edges'[k] # NoEdge) => has_source(k)'
           /\ \A k \in Keys :
                (nTaken' # nTaken /\ last'.item = <<k, nTaken + 1>> /\ m_edges[k] # NoEdge
                    /\ ~ConvRaises(last'.item))
                    => (last'.ret = await_write(m_edges[k])
                        /\ Len(written'[m_edges[k]]) = Len(written[m_edges[k]])
                            + (IF last'.ret = "success" THEN 1 ELSE 0))
           /\ \A k \in Keys : DropSource(k) => ~has_source(k)'

DynamicKeySetGrows == [][DynamicKeySetStep]_vars

\* C13 drop_source releases: a drop_source(k) step on a dynamic router leaves no edge
\* bound for k, and an item whose key is not in the router's key set returns error and
\* is written nowhere.
DropReleasesStep ==
    /\ \A k \in Keys : DropSource(k) => m_edges'[k] = NoEdge
    /\ \A d \in Inputs(nTaken + 1) :
        (nTaken' # nTaken /\ last'.item = d /\ variant \notin StaticVariants /\ ~KeyRaises(d)
            /\ ~has_source(determine_key_for_value(d).val))
            => (last'.ret = "error" /\ written' = written)

DropReleases == [][DropReleasesStep]_vars

\* the ids the fields of snapshot s carry that its indexed maps do not hold
Dangling(s) ==
    {a \in Accessors : ~(cps.snaps[s].msg.refs[a] \subseteq cps.snaps[s].maps[a[3]])}

\* C14 State referential integrity: create returns no snapshot for a raw message with a
\* dangling id, and every cross-reference accessor called on a view of a snapshot finds
\* its ids in the indexed map.
ReferentialIntegrity ==
    /\ \A s \in Snapshots : cps.snaps[s].status = "created" => Dangling(s) = {}
    /\ cps.call.op = "access" => cps.call.result = "found"

\* C15 Views reference their snapshot: every view of a snapshot, the nested
\* ManifoldDefinition and SegmentDefinition views included, holds that snapshot, and an
\* accessor called on it resolves against that snapshot's maps.
ViewsHoldSnapshot ==
    /\ \A s \in Snapshots : \A v \in cps.snaps[s].views : v.root = s
    /\ cps.call.op = "access"
        => cps.call.result
            = MAP_AT_WITH_CHECK(
                cps.snaps[cps.call.a[1]].maps[cps.call.b[2]],
                cps.snaps[cps.call.a[1]].msg.refs[<<cps.call.a[2], cps.call.b[1],
                                                    cps.call.b[2]>>])

\* C16 Structural equality: a == b is true exactly when the two wrapped messages are
\* equal field for field, whichever snapshots the wrappers belong to; it is true of a
\* wrapper and itself, gives the same answer with the operands exchanged, and
\* evaluating it changes no snapshot.
StructuralEqualityNow ==
    cps.call.op = "compare"
        => LET a == cps.call.a
               b == cps.call.b
           IN /\ (cps.call.result = "equal")
                    <=> (MessageOf(a[1], a[2]) = MessageOf(b[1], b[2]))
              /\ (cps.call.result = "equal") <=> ControlPlaneStateBase_eq(b, a)
              /\ a = b => cps.call.result = "equal"

StructuralEquality ==
    /\ []StructuralEqualityNow
    /\ [][(cps'.call # cps.call) => (cps'.snaps = cps.snaps)]_vars

StructuralEqualityWitness ==
    /\ cps.call = [op |-> "compare", a |-> <<"s1", "Worker">>, b |-> <<"s2", "Worker">>,
                   result |-> "equal"]
    /\ cps.snaps["s1"].msg # cps.snaps["s2"].msg

\* C17 Returned lists belong to the caller: the list a caller was given by dependees()
\* or dependers() of a ResourceState holds that ResourceState's dependees (dependers),
\* whatever calls are made afterwards or at the same time.
ReturnedListsAreOwned ==
    \A h \in rs.held : rs.static[h[1]] = m_message(h[2])[h[1]]

\* C18 Reconciliation: push_updates(S) with current set C starts exactly S \ C, requests
\* termination of exactly C \ S, leaves the segments in both sets running untouched and
\* remembers S; pushing the current set again starts and stops nothing.
StartedBy   == {a \in SegmentAddresses : mgr.seg[a] # "running" /\ mgr'.seg[a] = "running"}
TerminatedBy == {a \in SegmentAddresses : mgr.req[a] = "none" /\ mgr'.req[a] # "none"}
ReconcileStep ==
    (mgr'.flip # mgr.flip) =>
        LET C == mgr.current
            S == mgr'.current
        IN  /\ StartedBy = S \ C
            /\ TerminatedBy = C \ S
            /\ \A a \in S \cap C :
                    /\ mgr.seg[a] = "running" /\ mgr'.seg[a] = "running"
                    /\ mgr'.req[a] = "none"
                    /\ mgr'.pending[a] = mgr.pending[a]
            /\ \A a \in SegmentAddresses \ (S \cup C) :
                    mgr'.seg[a] = mgr.seg[a] /\ mgr'.req[a] = mgr.req[a]
            /\ (S = C) => (mgr'.seg = mgr.seg /\ mgr'.req = mgr.req
                            /\ mgr'.pending = mgr.pending)
Reconciliation == [][ReconcileStep]_vars
ReconciliationWitness ==
    /\ mgr.flip
    /\ \E a, b, d \in SegmentAddresses :
        /\ a \in mgr.current /\ mgr.seg[a] = "running" /\ mgr.pending[a] > 0
        /\ b \notin mgr.current /\ mgr.seg[b] = "stopping"
        /\ d \in mgr.current /\ d # a /\ mgr.pending[d] = 0

\* C19 Every segment removed by an update was asked to Stop, never to Kill, and nothing
\* it had been handed is dropped: it drains before its runnables complete.
RemovedSegmentsStop ==
    \A a \in SegmentAddresses :
        /\ mgr.req[a] # "Kill"
        /\ a \notin mgr.lost
        /\ (a \notin mgr.current /\ mgr.seg[a] # "absent") => mgr.req[a] = "Stop"
        /\ mgr.seg[a] = "joined" => mgr.pending[a] = 0
RemovedSegmentsStopWitness ==
    \E a, b \in SegmentAddresses :
        /\ mgr.req[a] = "Stop" /\ mgr.seg[a] = "stopping" /\ mgr.pending[a] = MaxPending
        /\ mgr.req[b] = "Stop" /\ mgr.seg[b] = "joined"

\* C20 Handlers run after the swap: in every tagged-instances update no handler runs
\* before the stored map has been replaced, every handler that ran was given the new map
\* and read the new map as the stored one (all of it, nothing of the old one), and the
\* registered handlers are invoked once each, in registration order.
HandlersAfterSwap ==
    /\ ps.pc \in {"endpoints", "forward"} => ps.obs = <<>>
    /\ \A i \in DOMAIN ps.obs :
        /\ ps.obs[i].arg = ps.arg
        /\ ps.obs[i].stored = ps.arg
        /\ ps.via = "publisher" => ps.obs[i].mgr = ps.arg
    /\ ps.pc = "handlers" =>
            [i \in DOMAIN ps.obs |-> ps.obs[i].fn] = SubSeq(ps.registered, 1, ps.idx - 1)
    /\ (ps.pc = "idle" /\ ps.updated) =>
            [i \in DOMAIN ps.obs |-> ps.obs[i].fn] = ps.registered
HandlersAfterSwapWitness ==
    /\ ps.pc = "idle"
    /\ ps.via = "publisher"
    /\ Len(ps.obs) = 2
    /\ DOMAIN ps.arg = {"t2"}
    /\ "t1" \in DOMAIN ps.m_tagged_endpoints

\* C21 Single-segment life cycle: the sink observes the mapped items once each in
\* emission order, and once executor.join() has returned it has observed all of them
\* (3 source taps, 3 node taps adding 2 each, 3 sink observations), on either engine type.
IsPrefixOf(a, b) == Len(a) <= Len(b) /\ a = SubSeq(b, 1, Len(a))
ExpectedAtSink(t) == IF t = "LifeCycleSingleSegment" THEN <<2, 4, 6>> ELSE <<1, 2, 3>>
ExecutorLifeCycle ==
    pl.cfg.test \in SingleSegmentTests =>
        /\ IsPrefixOf(pl.obs, ExpectedAtSink(pl.cfg.test))
        /\ pl.joined["executor"] =>
            /\ pl.obs = ExpectedAtSink(pl.cfg.test)
            /\ pl.taps[1] = 3
            /\ pl.taps[Len(PlStages)] = 3
            /\ pl.cfg.test = "LifeCycleSingleSegment" => 2 * pl.taps[2] = 6
ExecutorLifeCycleWitness ==
    /\ pl.cfg = [test |-> "LifeCycleSingleSegment", source_engine |-> "Thread"]
    /\ pl.joined["executor"]
    /\ pl.obs = <<2, 4, 6>>

\* C22 Concurrent source: a source launched with pe_count = P and engines_per_pe = E runs
\* as P * E instances, each on its own engine, and after join() the sink has observed
\* P * E distinct engine ids.
ConcurrentSourceEngines ==
    pl.cfg.test \in ConcurrentSourceTests =>
        LET PE == pe_count(pl.cfg.test, 1) * engines_per_pe(pl.cfg.test, 1) IN
        /\ Cardinality({x \in DOMAIN pl.run : x[1] = 1}) = PE
        /\ pl.joined["executor"] =>
                Cardinality({pl.obs[i] : i \in DOMAIN pl.obs}) = PE

\* C23 Staggered shutdown: the completion of one instance of a concurrent source leaves
\* the shared downstream open; an instance that has not completed finds its subscriber
\* subscribed, what it emits reaches the sink, and the downstream closes only after the
\* last instance has completed.
SourceInstances == {x \in DOMAIN pl.run : x[1] = 1}
StaggeredShutdown ==
    pl.cfg.test \in ConcurrentSourceTests =>
        /\ pl.unsubscribed = {} /\ pl.dropped = {}
        /\ \A x \in SourceInstances : pl.run[x].pc # "completed" => ~pl.ch[1].closed
        /\ pl.joined["executor"] =>
                \A x \in SourceInstances :
                    \E i \in DOMAIN pl.obs : pl.obs[i] = SourceItems(pl.cfg.test, x[2])[1]
StaggeredShutdownWitness ==
    /\ pl.cfg.test = "LifeCycleSingleSegmentConcurrentSourceWithStaggeredShutdown"
    /\ \E x, y \in SourceInstances :
        /\ pl.run[x].pc = "completed"
        /\ pl.run[y].pc = "running" /\ pl.run[y].n = 1
        /\ pl.obs = SourceItems(pl.cfg.test, x[2])

\* C24 Four segments joined by ports, on one executor or split over two: what seg_4's
\* sink observes are the source's items, once each and in order, each having passed
\* seg_2 and then seg_3 once; join() of an executor returns only after the source has
\* completed and every item has been delivered.
ExpectedPath == <<"my_int2", "seg_2/node", "my_int3", "seg_3/node", "my_int4">>
FourSegmentDelivery ==
    pl.cfg.test \in FourSegmentTests =>
        /\ Len(pl.obs) <= MaxEmit
        /\ \A i \in DOMAIN pl.obs : pl.obs[i] = <<i, ExpectedPath>>
        /\ \A e \in DOMAIN pl.joined : pl.joined[e] =>
                /\ pl.run[<<1, 1>>].pc = "completed"
                /\ Len(pl.obs) = MaxEmit
FourSegmentDeliveryWitness ==
    /\ pl.cfg.test = "MultiNode"
    /\ pl.joined["machine_1"] /\ pl.joined["machine_2"]
    /\ Len(pl.obs) = MaxEmit

\* C25 Streaming ping-pong: the i-th response the client reads carries the batch_id of
\* its i-th request; the client has read one response per request it wrote before it
\* writes the next, and once it has finished no response is left over or missing.
PingPongInOrder ==
    /\ Len(rpc.responses) <= Len(rpc.sent)
    /\ \A i \in DOMAIN rpc.responses : rpc.responses[i] = rpc.sent[i]
    /\ rpc.pc = "write" => Len(rpc.responses) = Len(rpc.sent)
    /\ rpc.pc \in {"finish", "done"} =>
            /\ Len(rpc.responses) = MaxRequests
            /\ rpc.s2c = <<>> /\ rpc.client_in = <<>>
PingPongInOrderWitness ==
    /\ rpc.pc = "done"
    /\ rpc.c2s = <<>> /\ rpc.server_in = <<>>
    /\ Len(rpc.responses) = MaxRequests
    /\ rpc.responses[1] # rpc.responses[2]

\* C28 Channel FIFO: with one writer and one reader, the values returned by successful
\* reads are, in order, the first of the values accepted by successful writes: none is
\* skipped, duplicated or reordered; and the accepted values are the written values in
\* the order of the successful writes.
ChannelFifo ==
    (Cardinality(chn.ws) = 1 /\ Cardinality(chn.rs) = 1) =>
        /\ IsPrefixOf(chn.returned, chn.accepted)
        /\ chn.accepted = chn.returned \o chn.q
        /\ \A i, j \in DOMAIN chn.accepted : i < j => chn.accepted[i] < chn.accepted[j]
ChannelFifoWitness ==
    /\ Cardinality(chn.ws) = 1 /\ Cardinality(chn.rs) = 1
    /\ Len(chn.returned) = 2
    /\ Len(chn.q) = 1
    /\ chn.th["r1"].pc = "idle"

\* C29 Channel closure: once the channel is closed it stays closed and no await_write or
\* try_write, new or resumed, succeeds; closing keeps the queued values and a read made
\* while values are queued returns the oldest of them; a read made on the closed and
\* drained channel ends at once with closed; nobody is left suspended on a closed
\* channel (close wakes every waiter), and closing a closed channel changes nothing.
Ended(op) == chn'.flip # chn.flip /\ chn'.last.op = op
ChannelClosureStep ==
    /\ chn.closed =>
          /\ chn'.closed
          /\ chn'.accepted = chn.accepted
          /\ Ended("write") => chn'.last.status = "closed"
          /\ (Ended("read") /\ chn.q # <<>>) =>
                /\ chn'.last.status = "success"
                /\ chn'.last.val = Head(chn.q)
                /\ chn'.q = Tail(chn.q)
          /\ (Ended("read") /\ chn.q = <<>>) => chn'.last.status = "closed"
          /\ chn.q = <<>> => chn'.returned = chn.returned
    /\ (~chn.closed /\ chn'.closed) => chn'.q = chn.q
    /\ chn'.closed =>
          /\ Waiting(chn'.th, Participants) = {}
          /\ Close(chn') = chn'
ChannelClosure == [][ChannelClosureStep]_vars
ChannelClosureWitness ==
    /\ chn.closed
    /\ chn.woke # {}
    /\ chn.drained >= 1
    /\ chn.q = <<>>
    /\ chn.last.op = "read" /\ chn.last.status = "closed"

\* C30 Completion propagates through a router: on_complete of a component router and the
\* exit of the runnable router's run(), which a closed upstream channel leads to, release
\* the edge of every key; edges are released in no other way; every downstream that had
\* an edge is then closed and keeps the items delivered to it, so its reader gets them
\* and then closed; and an item whose key has no edge is not written anywhere and its
\* call does not return success.
Releasing == \E k \in Keys : m_edges[k] # NoEdge /\ m_edges'[k] = NoEdge
CompletionStep ==
    /\ Releasing =>
          /\ variant \in ComponentVariants \/ (pc = "exit" /\ pc' = "done")
          /\ \A k \in Keys : m_edges'[k] = NoEdge
          /\ \A k \in Keys : m_edges[k] # NoEdge =>
                /\ closed'[m_edges[k]]
                /\ ReadOutcome(closed'[m_edges[k]], written'[m_edges[k]] = <<>>) =
                      (IF written[m_edges[k]] = <<>> THEN "closed" ELSE "success")
                /\ ReadOutcome(closed'[m_edges[k]], TRUE) = "closed"
          /\ written' = written
    /\ (pc = "read" /\ pc' # "read" /\ read_status' = "closed") => pc' = "exit"
    /\ (pc = "exit" /\ pc' = "done") => \A k \in Keys : m_edges'[k] = NoEdge
    /\ (nProcessed' # nProcessed /\ last'.edge = NoEdge) =>
          /\ last'.ret # "success"
          /\ written' = written
    /\ \A t \in Sinks : closed[t] => closed'[t] /\ written'[t] = written[t]
CompletionPropagates == [][CompletionStep]_vars
CompletionPropagatesWitness ==
    /\ variant = "LambdaRouter"
    /\ \A k \in Keys : m_edges[k] = NoEdge
    /\ \E k \in Keys :
          /\ last.item[1] = k
          /\ \E t \in Sinks : closed[t] /\ written[t] # <<>> /\ written[t][1][1] = k
    /\ last.edge = NoEdge
    /\ last.ret = "error"
    /\ Cardinality({t \in Sinks : closed[t]}) = 2

\* C31 Multi-acceptor binding: a step that installs a handle for a key that already has
\* one leaves that key bound to the new downstream only, changes the binding of no other
\* key and writes nothing; and every item written afterwards goes to the downstream its
\* key is bound to at the time of the call, never to a replaced one.
RebindStep ==
    /\ \A k \in Keys :
          (m_edges[k] # NoEdge /\ m_edges'[k] # NoEdge /\ m_edges'[k] # m_edges[k]) =>
              /\ \A j \in Keys \ {k} : m_edges'[j] = m_edges[j]
              /\ written' = written
              /\ ~closed'[m_edges'[k]]
    /\ \A t \in Sinks :
          written'[t] # written[t] =>
              /\ m_edges[last'.item[1]] = t
              /\ m_edges' = m_edges
Rebinding == [][RebindStep]_vars
RebindingWitness ==
    /\ variant = "LambdaRouter"
    /\ m_edges["a"] = "d_a" /\ m_edges["z"] = "dx"
    /\ written["dx"] = << <<"a", 1>> >>
    /\ written["d_a"] = << <<"a", 2>> >>

\* C36 Endpoints follow instances: whenever no update_tagged_instances call is in
\* progress on the PublisherManager, tagged_endpoints has exactly the tags of
\* tagged_instances and each tag has the endpoint of its instance.
EndpointsMatchInstances ==
    ps.pc = "idle" =>
        /\ DOMAIN ps.m_tagged_endpoints = DOMAIN ps.mgr_tagged_instances
        /\ \A t \in DOMAIN ps.mgr_tagged_instances :
              ps.m_tagged_endpoints[t] = endpoint_shared(ps.mgr_tagged_instances[t])

\* C37 Drop service: the drop-service function of a subscriber has run at most once; it
\* has run exactly when the edge was made and nobody shares it any more, never while an
\* owner holds the edge; and once make_subscriber has returned, the caller's copies are
\* the only owners, so releasing them all drops the service.
DropServiceOnce ==
    \A s \in Subscribers :
        /\ sb[s].drops \in {0, 1}
        /\ sb[s].drops = 1 <=> (sb[s].pc \in {"linked", "returned"} /\ sb[s].owners = {})
        /\ sb[s].deleted <=> sb[s].drops = 1
        /\ sb[s].pc = "returned" => sb[s].owners \subseteq Callers
DropServiceOnceWitness ==
    /\ sb["sub1"].pc = "returned" /\ sb["sub1"].drops = 1
    /\ sb["sub2"].pc = "returned" /\ sb["sub2"].owners = {"c2", "c3"}
    /\ sb["sub2"].drops = 0

\* C38 Worker loop order: the loop never starts an action before its scheduled time,
\* takes an action only when no queued action has an earlier scheduled time, executes no
\* queue entry twice, starts only an action whose subscription is active when it is at
\* the head of the queue, and an action that was unsubscribed when schedule() was called
\* is neither queued nor executed.
ExecutedIds == {sch.executed[i].id : i \in DOMAIN sch.executed}
WorkerOrderInv ==
    /\ ~sch.early
    /\ ~sch.overtaken
    /\ \A i, j \in DOMAIN sch.executed : i # j => sch.executed[i].id # sch.executed[j].id
    /\ \A x \in sch.q : x.id \notin ExecutedIds \cup sch.dropped
    /\ ExecutedIds \cap sch.dropped = {}
WorkerOrderStep ==
    (sch.loop # "run" /\ sch'.loop = "run") =>
        /\ sch'.cur \in sch.q
        /\ sch'.cur.id \in sch.live
        /\ sch'.cur.when <= sch.now
        /\ sch'.q = sch.q \ {sch'.cur}
WorkerOrder == []WorkerOrderInv /\ [][WorkerOrderStep]_vars
WorkerOrderWitness ==
    /\ sch.executed = << [id |-> 2, when |-> 0], [id |-> 1, when |-> 1] >>
    /\ sch.dropped = {3}

\* C38 as stated: in addition, the scheduled times of the executed actions never decrease
\* over the whole run.
WorkerOrderGlobal ==
    /\ WorkerOrderInv
    /\ \A i, j \in DOMAIN sch.executed :
          i < j => sch.executed[i].when <= sch.executed[j].when

\* C39 create_worker returns a live worker: when the constructor returns, the lifetime is
\* still subscribed and the worker loop has not exited.
CreateWorkerReturnsLiveStep ==
    (sch.ctor = "waiting" /\ sch'.ctor = "returned") =>
        (sch'.lifetime /\ sch'.loop # "exited")
CreateWorkerReturnsLive == [][CreateWorkerReturnsLiveStep]_vars

\* C40 Unsubscribe completes: a lifetime callback that waits for the worker loop waits
\* for a loop that can exit (the loop is not inside the action that is unsubscribing), the
\* callback has returned only after the loop has exited, and no action started after it
\* returned.
UnsubscribeCompletes ==
    /\ sch.unsub = "join" => ~(sch.by = "action" /\ sch.loop = "run")
    /\ sch.unsub = "returned" => sch.loop = "exited"
    /\ ~sch.late

\* C32 Loop order: once process_one has returned a status other than success, run()
\* takes no further item from the upstream channel.
NoReadAfterFailedWriteStep ==
    (IsRunnable /\ write_status # "success") => nTaken' = nTaken
NoReadAfterFailedWrite == [][NoReadAfterFailedWriteStep]_vars

\* C33 Release before return: run() is over only through its exit, the step that ends it
\* has released every downstream edge and closed the downstreams that had one, a runtime
\* error is raised only together with that release, and after run() is over no edge is
\* connected.
ReleasedAtExitStep ==
    /\ (pc # "done" /\ pc' = "done") =>
          /\ pc = "exit"
          /\ \A k \in Keys : m_edges'[k] = NoEdge
          /\ \A k \in Keys : m_edges[k] # NoEdge => closed'[m_edges[k]]
    /\ thrown' # thrown => \A k \in Keys : m_edges'[k] = NoEdge
    /\ pc = "done" => (pc' = "done" /\ \A k \in Keys : m_edges'[k] = NoEdge)
ReleasedAtExit == [][ReleasedAtExitStep]_vars
ReleasedAtExitWitness ==
    /\ pc = "done"
    /\ thrown = "write"
    /\ closed["d_a"] /\ written["d_a"] # <<>>
    /\ \A k \in Keys : m_edges[k] = NoEdge

\* C34 Kill wakes a suspended read: when the stop token is set while run() is suspended
\* in await_read on an empty upstream channel that is not closed, run() eventually ends.
KillWakesRead ==
    (stop_requested /\ pc = "read" /\ up.q = <<>> /\ ~up.closed) ~> (pc = "done")

\* C35 Kill before the first read: when run() ends without having called await_read, it
\* has released the downstream connections and raised nothing.
KillBeforeReadReturns ==
    (IsRunnable /\ pc = "done" /\ lastRead = "none") =>
        /\ thrown = "none"
        /\ \A k \in Keys : m_edges[k] = NoEdge

====
